---- MODULE Spec2Model ----
(***************************************************************************)
(* OpenConstructionEstimate: the table store (zustand), the table view     *)
(* (DataViewDemo + DataTable), the server query pipeline (queryWorkItems)  *)
(* and the mapper-side filter (filterWorkItems).                           *)
(*                                                                         *)
(* Text is modelled as a sequence of character codes so that case folding, *)
(* substring search and collation are computed, not assumed:               *)
(*   1 = "a", 2 = "b", 11 = "A", 12 = "B", 20..29 = "0".."9", 30 = "x",     *)
(*   31 = "y".  Column keys, operator names and modes are plain strings     *)
(*   because the code only compares them for equality.                     *)
(***************************************************************************)
EXTENDS Integers, Sequences, FiniteSets, TLC

VARIABLES
    \* ---- table store (tableStore.ts) ----
    viewMode, filters, visibleColumns, sorting, columnVisibility, columnSizing,
    lastOp,      \* history: the store action taken last, with its column argument
    storage,     \* localStorage["oce-table-store"], written by the persist middleware
    threw,       \* the store action taken last threw a TypeError
    \* ---- table view (DataViewDemo.tsx) ----
    data,        \* the item list handed to the data view
    \* ---- server query (queryWorkItems) ----
    qRows, qOptions, qResult,
    \* ---- mapper filter (filterWorkItems) ----
    mItems, mFilters, mResult,
    \* ---- natural-language filter (SmartFilter, parseNaturalLanguageQuery) ----
    inputValue,       \* the text in the filter box
    internalFilters,  \* the active filter list
    filterIdCounter,  \* the module-level counter of generateFilterId
    parsed,           \* history: the result of the parse handleSubmit made
    \* ---- server row store (parquet reader: loadParquetData and its callers) ----
    now,              \* Date.now(), in ticks
    files,            \* the regions whose Parquet file exists on disk
    dataCache,        \* Map "data:<region>" -> CachedData
    queryCache,       \* Map "<kind>:<region>" -> {data, timestamp}
    calls,            \* the calls of queryWorkItems / getStats / getColumns in flight
    outcome,          \* history: how the call that ended last ended
    \* ---- client work-item query (useWorkItems, QueryProvider, page.tsx) ----
    selectedRegion,   \* useRegionStore.selectedRegion
    queries,          \* the QueryClient cache: one query per query key
    fetches,          \* the regions whose HTTP request is in flight
    shown,            \* the region of the query whose data the observer last held
    \* ---- row mapping and summaries (workitem-mapper.ts, types.ts) ----
    sourceRows,         \* the DDC rows handed to the mapper
    constructionItems,  \* the table rows made last, and by which function
    aggregates,         \* the summaries computed last
    \* ---- data table (DataTable.tsx) ----
    tableData,        \* the data prop: the rows in table order
    tableProps,       \* the props rowHeight, overscan, enableSelection
    focusedRowIndex, selectedRowIds,
    scrollOffset,     \* the scroll position of the container
    outerSize,        \* the height of the container
    \* ---- search box (SearchInput, debounce) ----
    localValue,       \* the text in the box
    timeoutId,        \* the timer of the debounced setGlobalSearch
    sinceClear        \* history: the clear button was pressed, no key since

storeVars == <<viewMode, filters, visibleColumns, sorting, columnVisibility,
               columnSizing, lastOp, storage, threw>>
viewVars == <<data>>
queryVars == <<qRows, qOptions, qResult>>
mapperVars == <<mItems, mFilters, mResult>>
parserVars == <<inputValue, internalFilters, filterIdCounter, parsed>>
loaderVars == <<now, files, dataCache, queryCache, calls, outcome>>
clientVars == <<selectedRegion, queries, fetches, shown>>
mappingVars == <<sourceRows, constructionItems, aggregates>>
tableVars == <<tableData, tableProps, focusedRowIndex, selectedRowIds, scrollOffset,
               outerSize>>
searchVars == <<localValue, timeoutId, sinceClear>>
extVars == <<parserVars, loaderVars, clientVars, mappingVars, tableVars, searchVars>>
vars == <<storeVars, viewVars, queryVars, mapperVars, extVars>>

(***************************************************************************)
(* Bounds of the model.                                                    *)
(***************************************************************************)
MaxCols == 2
MaxConds == 1
MaxData == 2
MaxRows == 2
MaxItems == 2

\* null / undefined of the source.  A missing text is the one-element sequence
\* of the code 0, which is no character; a missing number is -1, and every
\* number of the data is >= 0; a missing option name is the string "undefined".
Null == <<0>>
NullNumber == 0 - 1
Undef == "undefined"

(***************************************************************************)
(* Text helpers: String.prototype.toLowerCase, includes, String(number).   *)
(***************************************************************************)
LowerChar(c) == IF c \in 11..12 THEN c - 10 ELSE c

ToLowerCase(s) == [i \in 1..Len(s) |-> LowerChar(s[i])]

\* s.includes(t): t occurs in s as a contiguous substring ("" occurs everywhere)
Includes(s, t) ==
    \E i \in 0..(Len(s) - Len(t)) :
        \A j \in 1..Len(t) : s[i + j] = t[j]

RECURSIVE NumberToString(_)
\* String(n) for an integer n >= 0: its decimal digits
NumberToString(n) ==
    IF n < 10 THEN <<20 + n>>
    ELSE NumberToString(n \div 10) \o <<20 + (n % 10)>>

\* Array.prototype.includes on a list
ListIncludes(list, x) == \E i \in 1..Len(list) : list[i] = x

\* all sequences over S of length 0..n
SeqsUpTo(S, n) == UNION {[1..k -> S] : k \in 0..n}

(***************************************************************************)
(* Table store: data/types.ts and stores/tableStore.ts                     *)
(***************************************************************************)
\* the column keys the model's callers pass (ColumnKey = keyof ConstructionItem)
ColumnKeys == {"id", "categoria"}

DEFAULT_VISIBLE_COLUMNS ==
    <<"id", "descripcion", "costoUnitario", "cantidad", "unidad", "subtotal">>

DEFAULT_FILTERS == [globalSearch |-> <<>>, conditions |-> <<>>]

ViewModes == {"table", "grid"}

\* global search strings typed by the user: "", "a", "B"
SearchStrings == {<<>>, <<1>>, <<12>>}

\* structured filter conditions a caller may add
CondUniverse ==
    {[column |-> "costoUnitario", operator |-> "gt", value |-> 10]}

\* SortingState values of the table: unsorted, or one column in either direction
SortingStates ==
    {<<>>,
     <<[id |-> "costoUnitario", desc |-> FALSE]>>,
     <<[id |-> "costoUnitario", desc |-> TRUE]>>}

EmptyObject == [k \in {} |-> 0]
VisibilityStates == {EmptyObject, [k \in {"subtotal"} |-> FALSE]}
SizingStates == {EmptyObject, [k \in {"id"} |-> 120]}

NoOp == [name |-> "init", col |-> "-"]

\* the store's state as one object
StoreState ==
    [viewMode |-> viewMode, filters |-> filters, visibleColumns |-> visibleColumns,
     sorting |-> sorting, columnVisibility |-> columnVisibility,
     columnSizing |-> columnSizing]

initialState ==
    [viewMode |-> "table", filters |-> DEFAULT_FILTERS,
     visibleColumns |-> DEFAULT_VISIBLE_COLUMNS, sorting |-> <<>>,
     columnVisibility |-> EmptyObject, columnSizing |-> EmptyObject]

\* the value under the storage key: nothing, a text JSON.parse rejects, or the
\* JSON object {state, version} whose state has the keys `keys`
PersistKeys == {"viewMode", "visibleColumns", "sorting", "columnVisibility", "columnSizing"}

Blob(kind, keys, state) ==
    [kind |-> kind, keys |-> keys, viewMode |-> state.viewMode,
     visibleColumns |-> state.visibleColumns, sorting |-> state.sorting,
     columnVisibility |-> state.columnVisibility, columnSizing |-> state.columnSizing]

MissingBlob == Blob("missing", {}, initialState)
CorruptBlob == Blob("corrupt", {}, initialState)

\* a partialize that leaves the sort out
PartializeWithoutSorting(state) == Blob("json", PersistKeys \ {"sorting"}, state)

\* partialize, then JSON.stringify of {state, version}
Partialize(state) == Blob("json", PersistKeys, state)

\* the persist middleware's default merge: {...currentState, ...persistedState}
Merge(current, blob) ==
    [viewMode |-> IF "viewMode" \in blob.keys THEN blob.viewMode ELSE current.viewMode,
     filters |-> current.filters,
     visibleColumns |-> IF "visibleColumns" \in blob.keys
                        THEN blob.visibleColumns ELSE current.visibleColumns,
     sorting |-> IF "sorting" \in blob.keys THEN blob.sorting ELSE current.sorting,
     columnVisibility |-> IF "columnVisibility" \in blob.keys
                          THEN blob.columnVisibility ELSE current.columnVisibility,
     columnSizing |-> IF "columnSizing" \in blob.keys
                      THEN blob.columnSizing ELSE current.columnSizing]

\* hydration of a freshly created store: getItem, JSON.parse (a parse error is
\* caught and leaves the initial state), merge
Rehydrate(blob) ==
    IF blob.kind = "json" THEN Merge(initialState, blob) ELSE initialState

\* every set(...) of the store is followed by setItem(partialize(state))
Persist == storage' = Partialize(StoreState') /\ threw' = FALSE

\* a store action touches nothing outside the store
StoreFrame == UNCHANGED <<viewVars, queryVars, mapperVars, extVars>>

StoreInit ==
    /\ viewMode = "table"
    /\ filters = DEFAULT_FILTERS
    /\ visibleColumns = DEFAULT_VISIBLE_COLUMNS
    /\ sorting = <<>>
    /\ columnVisibility = EmptyObject
    /\ columnSizing = EmptyObject
    /\ lastOp = NoOp
    /\ storage = MissingBlob
    /\ threw = FALSE

SetViewMode(mode) ==
    /\ viewMode' = mode
    /\ lastOp' = [name |-> "setViewMode", col |-> "-"]
    /\ StoreFrame
    /\ UNCHANGED <<filters, visibleColumns, sorting, columnVisibility, columnSizing>>
    /\ Persist

SetFilters(f) ==
    /\ filters' = f
    /\ lastOp' = [name |-> "setFilters", col |-> "-"]
    /\ StoreFrame
    /\ UNCHANGED <<viewMode, visibleColumns, sorting, columnVisibility, columnSizing>>
    /\ Persist

\* setGlobalSearch as the store runs it
setGlobalSearch(search) ==
    /\ filters' = [filters EXCEPT !.globalSearch = search]
    /\ lastOp' = [name |-> "setGlobalSearch", col |-> "-"]
    /\ UNCHANGED <<viewMode, visibleColumns, sorting, columnVisibility, columnSizing>>
    /\ Persist

SetGlobalSearch(search) == setGlobalSearch(search) /\ StoreFrame

AddFilterCondition(condition) ==
    /\ Len(filters.conditions) < MaxConds
    /\ filters' = [filters EXCEPT !.conditions = Append(@, condition)]
    /\ lastOp' = [name |-> "addFilterCondition", col |-> "-"]
    /\ StoreFrame
    /\ UNCHANGED <<viewMode, visibleColumns, sorting, columnVisibility, columnSizing>>
    /\ Persist

\* conditions.filter((_, i) => i !== index), index counted from 0
RemoveAt(list, index) ==
    IF index \in 0..(Len(list) - 1)
    THEN [k \in 1..(Len(list) - 1) |-> IF k - 1 < index THEN list[k] ELSE list[k + 1]]
    ELSE list

RemoveFilterCondition(index) ==
    /\ filters' = [filters EXCEPT !.conditions = RemoveAt(@, index)]
    /\ lastOp' = [name |-> "removeFilterCondition", col |-> "-"]
    /\ StoreFrame
    /\ UNCHANGED <<viewMode, visibleColumns, sorting, columnVisibility, columnSizing>>
    /\ Persist

\* clearFilters as the store runs it
clearFilters ==
    /\ filters' = DEFAULT_FILTERS
    /\ lastOp' = [name |-> "clearFilters", col |-> "-"]
    /\ UNCHANGED <<viewMode, visibleColumns, sorting, columnVisibility, columnSizing>>
    /\ Persist

ClearFilters == clearFilters /\ StoreFrame

SetVisibleColumns(columns) ==
    /\ visibleColumns' = columns
    /\ lastOp' = [name |-> "setVisibleColumns", col |-> "-"]
    /\ StoreFrame
    /\ UNCHANGED <<viewMode, filters, sorting, columnVisibility, columnSizing>>
    /\ Persist

\* the list toggleColumn leaves in the store
ToggleColumnResult(visible, column) ==
    IF ListIncludes(visible, column)
    THEN IF Len(visible) > 1
         THEN SelectSeq(visible, LAMBDA c : c # column)
         ELSE visible
    ELSE Append(visible, column)

\* visibleColumns: null as rehydrated from a blob whose state holds null
NullColumns == <<"null">>

\* state.visibleColumns.includes(column) on null throws inside set(...): no
\* state change and no write
ToggleColumn(column) ==
    /\ lastOp' = [name |-> "toggleColumn", col |-> column]
    /\ StoreFrame
    /\ UNCHANGED <<viewMode, filters, sorting, columnVisibility, columnSizing>>
    /\ IF visibleColumns = NullColumns
       THEN threw' = TRUE /\ UNCHANGED <<visibleColumns, storage>>
       ELSE /\ visibleColumns' = ToggleColumnResult(visibleColumns, column)
            /\ Persist

SetSorting(s) ==
    /\ sorting' = s
    /\ lastOp' = [name |-> "setSorting", col |-> "-"]
    /\ StoreFrame
    /\ UNCHANGED <<viewMode, filters, visibleColumns, columnVisibility, columnSizing>>
    /\ Persist

SetColumnVisibility(visibility) ==
    /\ columnVisibility' = visibility
    /\ lastOp' = [name |-> "setColumnVisibility", col |-> "-"]
    /\ StoreFrame
    /\ UNCHANGED <<viewMode, filters, visibleColumns, sorting, columnSizing>>
    /\ Persist

SetColumnSizing(sizing) ==
    /\ columnSizing' = sizing
    /\ lastOp' = [name |-> "setColumnSizing", col |-> "-"]
    /\ StoreFrame
    /\ UNCHANGED <<viewMode, filters, visibleColumns, sorting, columnVisibility>>
    /\ Persist

Reset ==
    /\ viewMode' = "table"
    /\ filters' = DEFAULT_FILTERS
    /\ visibleColumns' = DEFAULT_VISIBLE_COLUMNS
    /\ sorting' = <<>>
    /\ columnVisibility' = EmptyObject
    /\ columnSizing' = EmptyObject
    /\ lastOp' = [name |-> "reset", col |-> "-"]
    /\ StoreFrame
    /\ Persist

\* what kind of blob a page load found under the storage key
BlobClass(blob) ==
    IF blob.kind # "json" THEN blob.kind
    ELSE IF blob.keys = PersistKeys /\ blob.visibleColumns # NullColumns
              /\ blob.visibleColumns # <<>>
         THEN "valid" ELSE "malformed"

\* a page load: the store is created anew with initialState and hydrated from
\* storage; hydration may write the merged state back
Reload ==
    /\ LET s == Rehydrate(storage)
       IN /\ viewMode' = s.viewMode
          /\ filters' = s.filters
          /\ visibleColumns' = s.visibleColumns
          /\ sorting' = s.sorting
          /\ columnVisibility' = s.columnVisibility
          /\ columnSizing' = s.columnSizing
    /\ lastOp' = [name |-> "rehydrate", col |-> BlobClass(storage)]
    /\ threw' = FALSE
    /\ IF storage.kind = "corrupt"
       THEN storage' = storage
       ELSE storage' \in {storage, Partialize(StoreState')}
    /\ StoreFrame

\* the TableFilters values a caller may pass to setFilters
FilterStates ==
    {[globalSearch |-> s, conditions |-> c] :
        s \in {<<>>, <<1>>}, c \in SeqsUpTo(CondUniverse, MaxConds)}

StoreNext ==
    \/ \E mode \in ViewModes : SetViewMode(mode)
    \/ \E f \in FilterStates : SetFilters(f)
    \/ \E s \in {<<>>, <<1>>} : SetGlobalSearch(s)
    \/ \E c \in CondUniverse : AddFilterCondition(c)
    \/ \E i \in 0..MaxConds : RemoveFilterCondition(i)
    \/ ClearFilters
    \/ \E cols \in SeqsUpTo(ColumnKeys, MaxCols) : SetVisibleColumns(cols)
    \/ \E c \in ColumnKeys : ToggleColumn(c)
    \/ \E s \in SortingStates : SetSorting(s)
    \/ \E v \in VisibilityStates : SetColumnVisibility(v)
    \/ \E z \in SizingStates : SetColumnSizing(z)
    \/ Reset
    \/ Reload

(***************************************************************************)
(* Stable sort: Array.prototype.sort with a comparator (stable since        *)
(* ES2019).  list holds positions, cmp[<<a, b>>] is the comparator's result *)
(* for the rows at positions a and b.                                       *)
(***************************************************************************)
RECURSIVE InsertSorted(_, _, _)
InsertSorted(sorted, x, cmp) ==
    IF sorted = <<>> THEN <<x>>
    ELSE IF cmp[<<x, Head(sorted)>>] < 0
         THEN <<x>> \o sorted
         ELSE <<Head(sorted)>> \o InsertSorted(Tail(sorted), x, cmp)

RECURSIVE StableSort(_, _)
StableSort(list, cmp) ==
    IF list = <<>> THEN <<>>
    ELSE InsertSorted(StableSort(SubSeq(list, 1, Len(list) - 1), cmp),
                      list[Len(list)], cmp)

\* the positions 1..Len(list) as a list
Positions(list) == [i \in 1..Len(list) |-> i]

\* the elements of list at the positions idx, in the order of idx
Pick(list, idx) == [k \in 1..Len(idx) |-> list[idx[k]]]

(***************************************************************************)
(* Table view: DataViewDemo.tsx (filteredData) and DataTable.tsx           *)
(* (useReactTable with globalFilter, getFilteredRowModel and                *)
(* getSortedRowModel over the columns of createColumns).                    *)
(***************************************************************************)
\* the items a data set is made of (createConstructionItem: subtotal =
\* costoUnitario * cantidad); descripcion "B", unidad "x"
ItemUniverse ==
    {[id |-> i, descripcion |-> <<12>>, costoUnitario |-> c, cantidad |-> 1,
      unidad |-> <<30>>, subtotal |-> c * 1, categoria |-> k] :
        i \in {<<1>>, <<2>>}, c \in {5, 15}, k \in {Null, <<11>>}}

DataSets == SeqsUpTo(ItemUniverse, MaxData)

\* item.categoria?.toLowerCase().includes(search): undefined is falsy
CategoriaIncludes(item, search) ==
    IF item.categoria = Null THEN FALSE
    ELSE Includes(ToLowerCase(item.categoria), search)

\* DataViewDemo filteredData: positions of data that the demo hands on
FilteredData(items, globalSearch) ==
    IF globalSearch = <<>> THEN Positions(items)
    ELSE LET search == ToLowerCase(globalSearch)
         IN SelectSeq(Positions(items), LAMBDA p :
                \/ Includes(ToLowerCase(items[p].descripcion), search)
                \/ Includes(ToLowerCase(items[p].id), search)
                \/ CategoriaIncludes(items[p], search))

\* createColumns: the accessor keys of the table's columns
TableColumns ==
    <<"id", "descripcion", "costoUnitario", "cantidad", "unidad", "subtotal">>

NumberColumns == {"costoUnitario", "cantidad", "subtotal"}

\* value.toString() of a cell
CellText(item, column) ==
    IF column \in NumberColumns THEN NumberToString(item[column]) ELSE item[column]

\* getFilteredRowModel with state.globalFilter and the default filter function
\* (includesString over every column whose values are strings or numbers)
GlobalFilterRows(items, globalFilter) ==
    IF items = <<>> \/ globalFilter = <<>> THEN Positions(items)
    ELSE LET search == ToLowerCase(globalFilter)
         IN SelectSeq(Positions(items), LAMBDA p :
                \E k \in 1..Len(TableColumns) :
                    Includes(ToLowerCase(CellText(items[p], TableColumns[k])), search))

\* the comparator getSortedRowModel uses for one numeric column: basic
\* comparison, negated for desc, ties broken by the row's index
SortingCompare(items, sort) ==
    [pq \in (1..Len(items)) \X (1..Len(items)) |->
        LET a == items[pq[1]][sort.id]
            b == items[pq[2]][sort.id]
            basic == IF a = b THEN 0 ELSE IF a > b THEN 1 ELSE -1
            signed == IF sort.desc THEN 0 - basic ELSE basic
        IN IF signed # 0 THEN signed ELSE pq[1] - pq[2]]

\* getSortedRowModel with state.sorting: no sorting entry returns the rows as
\* they are; otherwise the first entry orders them
SortedRows(items, rowPositions, sortingState) ==
    IF rowPositions = <<>> \/ sortingState = <<>> THEN rowPositions
    ELSE StableSort(rowPositions, SortingCompare(items, sortingState[1]))

\* table.getRowModel().rows of DataTable, as positions of the data prop
TableRowModel(items, globalFilter, sortingState) ==
    SortedRows(items, GlobalFilterRows(items, globalFilter), sortingState)

\* what the data view shows, as positions of data: the table over filteredData
\* in table mode, filteredData itself in grid mode
DisplayedRows ==
    LET fd == FilteredData(data, filters.globalSearch)
    IN IF viewMode = "table"
       THEN Pick(fd, TableRowModel(Pick(data, fd), filters.globalSearch, sorting))
       ELSE fd

(***************************************************************************)
(* Server query: queryWorkItems of the parquet reader                      *)
(***************************************************************************)
\* the rows a region's file may hold: rate_code "a" or "B", category "x" or
\* "y", a price or null; eight rows in which every pair of values of two
\* fields occurs together
RowUniverse ==
    {r \in [rate_code : {<<1>>, <<12>>}, rate_original_name : {Null},
            resource_name : {Null}, category_type : {<<30>>, <<31>>},
            resource_price_per_unit : {NullNumber, 50, 100, 150}] :
        (r.category_type = <<30>>)
            <=> ((r.rate_code = <<1>>) <=> (r.resource_price_per_unit \in {NullNumber, 100}))}

RowLists == SeqsUpTo(RowUniverse, MaxRows)

\* QueryOptions as a caller passes them; a field left out is Null (texts),
\* NullNumber (numbers) or Undef (names)
QueryOptionSets ==
    [page : {NullNumber}, limit : {NullNumber},
     search : {Null, <<1>>}, category : {Null, <<30>>},
     sortBy : {Undef, "resource_price_per_unit", "resource_name"},
     sortOrder : {Undef, "desc"},
     minPrice : {NullNumber, 0, 100}, maxPrice : {NullNumber, 100}]

NoOptions ==
    [page |-> NullNumber, limit |-> NullNumber, search |-> Null, category |-> Null,
     sortBy |-> Undef, sortOrder |-> Undef, minPrice |-> NullNumber,
     maxPrice |-> NullNumber]

NumberFields == {"resource_price_per_unit"}

safeString(row, field) ==
    IF field \in NumberFields
    THEN IF row[field] = NullNumber THEN <<>> ELSE NumberToString(row[field])
    ELSE IF row[field] = Null THEN <<>> ELSE row[field]

safeNumber(value) == IF value = NullNumber THEN 0 ELSE value

\* typeof value === 'number'
IsNumber(row, field) == field \in NumberFields /\ row[field] # NullNumber

\* the destructuring defaults of queryWorkItems
\* destructuring defaults with a descending default order
WithDefaultsDescending(options) ==
    [page |-> IF options.page = NullNumber THEN 1 ELSE options.page,
     limit |-> IF options.limit = NullNumber THEN 100 ELSE options.limit,
     search |-> IF options.search = Null THEN <<>> ELSE options.search,
     category |-> IF options.category = Null THEN <<>> ELSE options.category,
     sortBy |-> IF options.sortBy = Undef THEN "rate_code" ELSE options.sortBy,
     sortOrder |-> IF options.sortOrder = Undef THEN "desc" ELSE options.sortOrder,
     minPrice |-> options.minPrice,
     maxPrice |-> options.maxPrice]

WithDefaults(options) ==
    [page |-> IF options.page = NullNumber THEN 1 ELSE options.page,
     limit |-> IF options.limit = NullNumber THEN 100 ELSE options.limit,
     search |-> IF options.search = Null THEN <<>> ELSE options.search,
     category |-> IF options.category = Null THEN <<>> ELSE options.category,
     sortBy |-> IF options.sortBy = Undef THEN "rate_code" ELSE options.sortBy,
     sortOrder |-> IF options.sortOrder = Undef THEN "asc" ELSE options.sortOrder,
     minPrice |-> options.minPrice,
     maxPrice |-> options.maxPrice]

\* the filter stage: the positions of rows left in filteredRows
SearchStage(rows, positions, o) ==
    IF o.search # <<>>
    THEN LET searchLower == ToLowerCase(o.search)
         IN SelectSeq(positions, LAMBDA p :
                \/ Includes(ToLowerCase(safeString(rows[p], "rate_original_name")), searchLower)
                \/ Includes(ToLowerCase(safeString(rows[p], "rate_code")), searchLower)
                \/ Includes(ToLowerCase(safeString(rows[p], "resource_name")), searchLower))
    ELSE positions

\* a category filter that forgets the rows the search has dropped
CategoryStageOnAllRows(rows, positions, o) ==
    IF o.category # <<>>
    THEN SelectSeq(Positions(rows), LAMBDA p : safeString(rows[p], "category_type") = o.category)
    ELSE positions

CategoryStage(rows, positions, o) ==
    IF o.category # <<>>
    THEN SelectSeq(positions, LAMBDA p : safeString(rows[p], "category_type") = o.category)
    ELSE positions

\* a minimum-price filter with a strict comparison
MinPriceStageStrict(rows, positions, o) ==
    IF o.minPrice # NullNumber
    THEN SelectSeq(positions, LAMBDA p :
             safeNumber(rows[p].resource_price_per_unit) > o.minPrice)
    ELSE positions

MinPriceStage(rows, positions, o) ==
    IF o.minPrice # NullNumber
    THEN SelectSeq(positions, LAMBDA p :
             safeNumber(rows[p].resource_price_per_unit) >= o.minPrice)
    ELSE positions

MaxPriceStage(rows, positions, o) ==
    IF o.maxPrice # NullNumber
    THEN SelectSeq(positions, LAMBDA p :
             safeNumber(rows[p].resource_price_per_unit) <= o.maxPrice)
    ELSE positions

QueryFilterStage(rows, o) ==
    MaxPriceStage(rows,
        MinPriceStage(rows,
            CategoryStage(rows,
                SearchStage(rows, Positions(rows), o), o), o), o)

\* String.prototype.localeCompare: digits before letters, letters in
\* alphabetical order whatever their case, and, between texts equal up to case,
\* the lower-case letter first at the first difference
CollationKey(c) == IF c \in 20..29 THEN c - 20 ELSE 100 + LowerChar(c)

RECURSIVE CompareSeq(_, _)
CompareSeq(a, b) ==
    IF a = <<>> THEN (IF b = <<>> THEN 0 ELSE 0 - 1)
    ELSE IF b = <<>> THEN 1
    ELSE IF Head(a) < Head(b) THEN 0 - 1
    ELSE IF Head(a) > Head(b) THEN 1
    ELSE CompareSeq(Tail(a), Tail(b))

localeCompare(a, b) ==
    LET primary == CompareSeq([i \in 1..Len(a) |-> CollationKey(a[i])],
                              [i \in 1..Len(b) |-> CollationKey(b[i])])
    IN IF primary # 0 THEN primary ELSE CompareSeq(a, b)

validSortColumns ==
    {"rate_code", "rate_original_name", "resource_price_per_unit", "category_type"}

safeSort(o) == IF o.sortBy \in validSortColumns THEN o.sortBy ELSE "rate_code"

\* a comparator without the numeric branch
SortComparatorTextOnly(a, b, column, sortOrder) ==
    IF sortOrder = "asc"
    THEN localeCompare(safeString(a, column), safeString(b, column))
    ELSE localeCompare(safeString(b, column), safeString(a, column))

\* the comparator handed to Array.prototype.sort
SortComparator(a, b, column, sortOrder) ==
    IF IsNumber(a, column) /\ IsNumber(b, column)
    THEN IF sortOrder = "asc" THEN a[column] - b[column] ELSE b[column] - a[column]
    ELSE IF sortOrder = "asc"
         THEN localeCompare(safeString(a, column), safeString(b, column))
         ELSE localeCompare(safeString(b, column), safeString(a, column))

QuerySortStage(rows, positions, o) ==
    StableSort(positions,
        [pq \in (1..Len(rows)) \X (1..Len(rows)) |->
            SortComparator(rows[pq[1]], rows[pq[2]], safeSort(o), o.sortOrder)])

\* Array.prototype.slice(from, to) with 0 <= from, positions counted from 0
Slice(list, from, to) ==
    LET hi == IF to < Len(list) THEN to ELSE Len(list)
    IN IF from >= hi THEN <<>> ELSE SubSeq(list, from + 1, hi)

\* Math.ceil(a / b) for a >= 0, b >= 1
CeilDiv(a, b) == (a + b - 1) \div b

\* the WorkItem built from a row at index `index` of the page
MapToWorkItem(row, offset, index) ==
    [id |-> NumberToString(offset + index + 1),
     rate_code |-> safeString(row, "rate_code"),
     rate_original_name |-> safeString(row, "rate_original_name"),
     category_type |-> safeString(row, "category_type"),
     resource_name |-> safeString(row, "resource_name"),
     resource_price_per_unit |-> safeNumber(row.resource_price_per_unit)]

QueryWorkItemsFromPage(rows, options) ==
    LET o == WithDefaults(options)
        filtered == QueryFilterStage(rows, o)
        total == Len(filtered)
        sorted == QuerySortStage(rows, filtered, o)
        offset == o.page * o.limit
        paginated == Slice(sorted, offset, offset + o.limit)
    IN [done |-> TRUE,
        filteredRows |-> filtered,
        sortedRows |-> sorted,
        pageRows |-> paginated,
        items |-> [k \in 1..Len(paginated) |->
                      MapToWorkItem(rows[paginated[k]], offset, k - 1)],
        total |-> total,
        page |-> o.page,
        totalPages |-> CeilDiv(total, o.limit),
        limit |-> o.limit]

\* queryWorkItems on the rows of the region (no cached result): the response,
\* with the locals filteredRows (after the filters, after the sort) kept
QueryWorkItems(rows, options) ==
    LET o == WithDefaults(options)
        filtered == QueryFilterStage(rows, o)
        total == Len(filtered)
        sorted == QuerySortStage(rows, filtered, o)
        offset == (o.page - 1) * o.limit
        paginated == Slice(sorted, offset, offset + o.limit)
    IN [done |-> TRUE,
        filteredRows |-> filtered,
        sortedRows |-> sorted,
        pageRows |-> paginated,
        items |-> [k \in 1..Len(paginated) |->
                      MapToWorkItem(rows[paginated[k]], offset, k - 1)],
        total |-> total,
        page |-> o.page,
        totalPages |-> CeilDiv(total, o.limit),
        limit |-> o.limit]

NoResult == [done |-> FALSE]

QueryInit == qRows \in RowLists /\ qOptions = NoOptions /\ qResult = NoResult

\* one request: GET /api/workitems -> queryWorkItems(region, options)
Query(options) ==
    /\ ~qResult.done
    /\ qOptions' = options
    /\ qResult' = QueryWorkItems(qRows, options)
    /\ UNCHANGED <<qRows, storeVars, viewVars, mapperVars, extVars>>

QueryNext == \E options \in QueryOptionSets : Query(options)

(***************************************************************************)
(* Mapper-side filter: filterWorkItems of workitem-mapper.ts               *)
(***************************************************************************)
\* DDC work items: category "x" or "y", the two price fields (each possibly
\* null), the material flag; rate_code "a", the other texts empty; eight items
\* in which every pair of values of category, prices and flag occurs together
ItemPrices ==
    {<<NullNumber, NullNumber>>, <<NullNumber, 100>>, <<50, NullNumber>>, <<150, 50>>}

DDCUniverse ==
    {[rate_code |-> <<1>>, rate_original_name |-> Null, resource_name |-> Null,
      category_type |-> cat, department_name |-> Null, collection_name |-> Null,
      collection_code |-> <<2>>, department_code |-> <<2>>,
      price_est_median |-> pr[1], resource_price_per_unit |-> pr[2],
      is_material |-> ((cat = <<30>>) <=> (pr[1] = NullNumber)),
      is_labor |-> FALSE, is_machine |-> FALSE] :
        cat \in {<<30>>, <<31>>}, pr \in ItemPrices}

DDCLists == SeqsUpTo(DDCUniverse, MaxItems)

\* an optional boolean flag of the filter state
FlagValues == {Undef, "true", "false"}
FlagOf(b) == IF b THEN "true" ELSE "false"

\* priceRange: left out, or an object whose min and max may each be left out
NoRange == [given |-> FALSE, min |-> NullNumber, max |-> NullNumber]
PriceRanges ==
    {NoRange} \cup
    [given : {TRUE}, min : {NullNumber, 50}, max : {NullNumber, 100}]

\* a list of the filter state that is left out
NullList == <<Null>>

\* the filter states a caller passes
FilterSets ==
    [categoryTypes : {NullList, <<>>, <<(<<30>>)>>},
     collectionCodes : {NullList}, departmentCodes : {NullList},
     priceRange : PriceRanges,
     isMaterial : FlagValues, isLabor : {Undef}, isMachine : {Undef},
     searchQuery : {Null, <<30>>}]

NoFilters ==
    [categoryTypes |-> NullList, collectionCodes |-> NullList,
     departmentCodes |-> NullList,
     priceRange |-> NoRange, isMaterial |-> Undef, isLabor |-> Undef,
     isMachine |-> Undef, searchQuery |-> Null]

\* list?.length is truthy
HasEntries(list) == list # NullList /\ Len(list) > 0

\* a ?? b ?? 0 over the two price fields
ItemPrice(item) ==
    IF item.price_est_median # NullNumber THEN item.price_est_median
    ELSE IF item.resource_price_per_unit # NullNumber THEN item.resource_price_per_unit
    ELSE 0

\* [..fields].filter(Boolean): null and "" are dropped
SearchFields(item) ==
    SelectSeq(<<item.rate_code, item.rate_original_name, item.resource_name,
                item.category_type, item.department_name, item.collection_name>>,
              LAMBDA f : f # Null /\ f # <<>>)

\* the callback of items.filter: TRUE when the item is kept
KeepWorkItem(item, f) ==
    IF HasEntries(f.categoryTypes) /\ ~ListIncludes(f.categoryTypes, item.category_type)
    THEN FALSE
    ELSE IF HasEntries(f.collectionCodes)
            /\ ~ListIncludes(f.collectionCodes, item.collection_code)
    THEN FALSE
    ELSE IF HasEntries(f.departmentCodes)
            /\ ~ListIncludes(f.departmentCodes, item.department_code)
    THEN FALSE
    ELSE IF f.priceRange.given /\ f.priceRange.min # NullNumber
            /\ ItemPrice(item) < f.priceRange.min
    THEN FALSE
    ELSE IF f.priceRange.given /\ f.priceRange.max # NullNumber
            /\ ItemPrice(item) > f.priceRange.max
    THEN FALSE
    ELSE IF f.isMaterial # Undef /\ FlagOf(item.is_material) # f.isMaterial THEN FALSE
    ELSE IF f.isLabor # Undef /\ FlagOf(item.is_labor) # f.isLabor THEN FALSE
    ELSE IF f.isMachine # Undef /\ FlagOf(item.is_machine) # f.isMachine THEN FALSE
    ELSE IF f.searchQuery # Null /\ f.searchQuery # <<>>
    THEN LET query == ToLowerCase(f.searchQuery)
             fields == SearchFields(item)
         IN \E k \in 1..Len(fields) : Includes(ToLowerCase(fields[k]), query)
    ELSE TRUE

\* filterWorkItems: the positions of items that are returned
FilterWorkItems(items, f) ==
    SelectSeq(Positions(items), LAMBDA p : KeepWorkItem(items[p], f))

MapperInit == mItems \in DDCLists /\ mFilters = NoFilters /\ mResult = NoResult

ApplyFilter(f) ==
    /\ ~mResult.done
    /\ mFilters' = f
    /\ mResult' = [done |-> TRUE, kept |-> FilterWorkItems(mItems, f)]
    /\ UNCHANGED <<mItems, storeVars, viewVars, queryVars, extVars>>

MapperNext == \E f \in FilterSets : ApplyFilter(f)

(***************************************************************************)
(* Natural-language filter: parseNaturalLanguageQuery and SmartFilter      *)
(* (lib/utils.ts).  Here text is a sequence of one-character strings, so    *)
(* that the regular expressions of the source are matched character by      *)
(* character; "EUR-SIGN", "GE-SIGN", "LE-SIGN", "NE-SIGN" and "SUP-2" stand *)
(* for the characters U+20AC, U+2265, U+2264, U+2260 and U+00B2.  The texts *)
(* of the model hold no "." so the optional fraction of a number never      *)
(* matches and every number is an integer.                                  *)
(***************************************************************************)
UpperLetters ==
    <<"A", "B", "C", "D", "E", "F", "G", "H", "I", "J", "K", "L", "M",
      "N", "O", "P", "Q", "R", "S", "T", "U", "V", "W", "X", "Y", "Z">>
LowerLetters ==
    <<"a", "b", "c", "d", "e", "f", "g", "h", "i", "j", "k", "l", "m",
      "n", "o", "p", "q", "r", "s", "t", "u", "v", "w", "x", "y", "z">>
DigitChars == <<"0", "1", "2", "3", "4", "5", "6", "7", "8", "9">>

LowerOf ==
    [c \in {UpperLetters[i] : i \in 1..Len(UpperLetters)} |->
        LowerLetters[CHOOSE i \in 1..Len(UpperLetters) : UpperLetters[i] = c]]

CharLower(c) == IF c \in DOMAIN LowerOf THEN LowerOf[c] ELSE c

\* toLowerCase, and what the i flag of a pattern of lower-case literals sees
TextLower(s) == [i \in 1..Len(s) |-> CharLower(s[i])]

DigitOf ==
    [c \in {DigitChars[i] : i \in 1..Len(DigitChars)} |->
        (CHOOSE i \in 1..Len(DigitChars) : DigitChars[i] = c) - 1]

IsDigit(c) == c \in DOMAIN DigitOf
DigitValue(c) == DigitOf[c]
IsSpace(c) == c = " "

RECURSIVE TrimStart(_)
TrimStart(s) == IF s # <<>> /\ IsSpace(Head(s)) THEN TrimStart(Tail(s)) ELSE s

RECURSIVE TrimEnd(_)
TrimEnd(s) ==
    IF s # <<>> /\ IsSpace(s[Len(s)]) THEN TrimEnd(SubSeq(s, 1, Len(s) - 1)) ELSE s

\* String.prototype.trim
Trim(s) == TrimEnd(TrimStart(s))

\* the first index >= i of s that holds no white space (Len(s) + 1 if none)
RECURSIVE SkipSpaces(_, _)
SkipSpaces(s, i) == IF i <= Len(s) /\ IsSpace(s[i]) THEN SkipSpaces(s, i + 1) ELSE i

\* the last index of the run of digits that starts at i
RECURSIVE DigitRunEnd(_, _)
DigitRunEnd(s, i) ==
    IF i + 1 <= Len(s) /\ IsDigit(s[i + 1]) THEN DigitRunEnd(s, i + 1) ELSE i

\* parseFloat of a run of digits
RECURSIVE ParseNumber(_)
ParseNumber(digits) ==
    IF digits = <<>> THEN 0
    ELSE 10 * ParseNumber(SubSeq(digits, 1, Len(digits) - 1)) + DigitValue(digits[Len(digits)])

\* t occurs in s at index i
OccursAt(s, i, t) ==
    /\ i + Len(t) - 1 <= Len(s)
    /\ \A j \in 1..Len(t) : s[i + j - 1] = t[j]

\* RegExp.test for a pattern that is an alternation of lower-case literals with
\* the i flag, on a text given in lower case
TestAny(lowerText, literals) ==
    \E k \in 1..Len(literals) : Includes(lowerText, literals[k])

\* the aliases of each canonical field, in the order of the object's keys
fieldAliases ==
    <<[field |-> "cost",
       aliases |-> <<<<"c", "o", "s", "t">>,
                    <<"c", "o", "s", "t", "o">>,
                    <<"p", "r", "i", "c", "e">>,
                    <<"p", "r", "e", "c", "i", "o">>,
                    <<"a", "m", "o", "u", "n", "t">>,
                    <<"m", "o", "n", "t", "o">>,
                    <<"v", "a", "l", "u", "e">>,
                    <<"v", "a", "l", "o", "r">>>>],
      [field |-> "material",
       aliases |-> <<<<"m", "a", "t", "e", "r", "i", "a", "l">>,
                    <<"m", "a", "t", "e", "r", "i", "a", "l", "e", "s">>,
                    <<"m", "a", "t", "e", "r", "i", "a", "l", "s">>,
                    <<"i", "t", "e", "m">>,
                    <<"i", "t", "e", "m", "s">>,
                    <<"p", "r", "o", "d", "u", "c", "t", "o">>>>],
      [field |-> "area",
       aliases |-> <<<<"a", "r", "e", "a">>,
                    <<"s", "u", "p", "e", "r", "f", "i", "c", "i", "e">>,
                    <<"s", "u", "r", "f", "a", "c", "e">>,
                    <<"s", "i", "z", "e">>,
                    <<"t", "a", "m", "a", "n", "o">>,
                    <<"m", "2">>,
                    <<"s", "q", "m">>>>],
      [field |-> "quantity",
       aliases |-> <<<<"q", "u", "a", "n", "t", "i", "t", "y">>,
                    <<"c", "a", "n", "t", "i", "d", "a", "d">>,
                    <<"q", "t", "y">>,
                    <<"u", "n", "i", "t", "s">>,
                    <<"u", "n", "i", "d", "a", "d", "e", "s">>,
                    <<"c", "o", "u", "n", "t">>>>],
      [field |-> "weight",
       aliases |-> <<<<"w", "e", "i", "g", "h", "t">>,
                    <<"p", "e", "s", "o">>,
                    <<"k", "g">>,
                    <<"k", "i", "l", "o", "s">>,
                    <<"t", "o", "n">>,
                    <<"t", "o", "n", "s">>,
                    <<"t", "o", "n", "e", "l", "a", "d", "a", "s">>>>],
      [field |-> "date",
       aliases |-> <<<<"d", "a", "t", "e">>,
                    <<"f", "e", "c", "h", "a">>,
                    <<"c", "r", "e", "a", "t", "e", "d">>,
                    <<"c", "r", "e", "a", "d", "o">>,
                    <<"u", "p", "d", "a", "t", "e", "d">>,
                    <<"m", "o", "d", "i", "f", "i", "e", "d">>>>],
      [field |-> "status",
       aliases |-> <<<<"s", "t", "a", "t", "u", "s">>,
                    <<"e", "s", "t", "a", "d", "o">>,
                    <<"s", "t", "a", "t", "e">>>>],
      [field |-> "supplier",
       aliases |-> <<<<"s", "u", "p", "p", "l", "i", "e", "r">>,
                    <<"p", "r", "o", "v", "e", "e", "d", "o", "r">>,
                    <<"v", "e", "n", "d", "o", "r">>,
                    <<"p", "r", "o", "v", "i", "d", "e", "r">>>>],
      [field |-> "category",
       aliases |-> <<<<"c", "a", "t", "e", "g", "o", "r", "y">>,
                    <<"c", "a", "t", "e", "g", "o", "r", "i", "a">>,
                    <<"t", "y", "p", "e">>,
                    <<"t", "i", "p", "o">>>>]>>

\* the operator patterns with the one-character operators tested first
operatorPatternsShortFirst ==
    <<[operator |-> "gt",
       literals |-> <<<<">">>,
                    <<"m", "a", "y", "o", "r", " ", "q", "u", "e">>,
                    <<"g", "r", "e", "a", "t", "e", "r", " ", "t", "h", "a", "n">>,
                    <<"m", "a", "s", " ", "d", "e">>,
                    <<"m", "o", "r", "e", " ", "t", "h", "a", "n">>>>],
      [operator |-> "lt",
       literals |-> <<<<"<">>,
                    <<"m", "e", "n", "o", "r", " ", "q", "u", "e">>,
                    <<"l", "e", "s", "s", " ", "t", "h", "a", "n">>,
                    <<"m", "e", "n", "o", "s", " ", "d", "e">>>>],
      [operator |-> "eq",
       literals |-> <<<<"=">>,
                    <<"e", "s">>,
                    <<"e", "q", "u", "a", "l", "s">>,
                    <<"i", "g", "u", "a", "l">>>>],
      [operator |-> "gte",
       literals |-> <<<<">", "=">>,
                    <<"GE-SIGN">>,
                    <<"m", "a", "y", "o", "r", " ", "o", " ", "i", "g", "u", "a", "l">>,
                    <<"g", "r", "e", "a", "t", "e", "r", " ", "t", "h", "a", "n", " ", "o", "r", " ", "e", "q", "u", "a", "l">>>>],
      [operator |-> "lte",
       literals |-> <<<<"<", "=">>,
                    <<"LE-SIGN">>,
                    <<"m", "e", "n", "o", "r", " ", "o", " ", "i", "g", "u", "a", "l">>,
                    <<"l", "e", "s", "s", " ", "t", "h", "a", "n", " ", "o", "r", " ", "e", "q", "u", "a", "l">>>>],
      [operator |-> "neq",
       literals |-> <<<<"!", "=">>,
                    <<"<", ">">>,
                    <<"NE-SIGN">>,
                    <<"n", "o", " ", "e", "s">>,
                    <<"n", "o", "t", " ", "e", "q", "u", "a", "l">>,
                    <<"d", "i", "f", "e", "r", "e", "n", "t", "e">>>>],
      [operator |-> "between",
       literals |-> <<<<"e", "n", "t", "r", "e">>,
                    <<"b", "e", "t", "w", "e", "e", "n">>>>],
      [operator |-> "contains",
       literals |-> <<<<"c", "o", "n", "t", "i", "e", "n", "e">>,
                    <<"c", "o", "n", "t", "a", "i", "n", "s">>,
                    <<"i", "n", "c", "l", "u", "y", "e">>,
                    <<"i", "n", "c", "l", "u", "d", "e", "s">>,
                    <<"c", "o", "n", " ">>>>]>>

\* the operator patterns in the order they are tested (an optional last letter
\* of a pattern is left out: the pattern matches without it)
operatorPatterns ==
    <<[operator |-> "gte",
       literals |-> <<<<">", "=">>,
                    <<"GE-SIGN">>,
                    <<"m", "a", "y", "o", "r", " ", "o", " ", "i", "g", "u", "a", "l">>,
                    <<"g", "r", "e", "a", "t", "e", "r", " ", "t", "h", "a", "n", " ", "o", "r", " ", "e", "q", "u", "a", "l">>>>],
      [operator |-> "lte",
       literals |-> <<<<"<", "=">>,
                    <<"LE-SIGN">>,
                    <<"m", "e", "n", "o", "r", " ", "o", " ", "i", "g", "u", "a", "l">>,
                    <<"l", "e", "s", "s", " ", "t", "h", "a", "n", " ", "o", "r", " ", "e", "q", "u", "a", "l">>>>],
      [operator |-> "neq",
       literals |-> <<<<"!", "=">>,
                    <<"<", ">">>,
                    <<"NE-SIGN">>,
                    <<"n", "o", " ", "e", "s">>,
                    <<"n", "o", "t", " ", "e", "q", "u", "a", "l">>,
                    <<"d", "i", "f", "e", "r", "e", "n", "t", "e">>>>],
      [operator |-> "gt",
       literals |-> <<<<">">>,
                    <<"m", "a", "y", "o", "r", " ", "q", "u", "e">>,
                    <<"g", "r", "e", "a", "t", "e", "r", " ", "t", "h", "a", "n">>,
                    <<"m", "a", "s", " ", "d", "e">>,
                    <<"m", "o", "r", "e", " ", "t", "h", "a", "n">>>>],
      [operator |-> "lt",
       literals |-> <<<<"<">>,
                    <<"m", "e", "n", "o", "r", " ", "q", "u", "e">>,
                    <<"l", "e", "s", "s", " ", "t", "h", "a", "n">>,
                    <<"m", "e", "n", "o", "s", " ", "d", "e">>>>],
      [operator |-> "eq",
       literals |-> <<<<"=">>,
                    <<"e", "s">>,
                    <<"e", "q", "u", "a", "l", "s">>,
                    <<"i", "g", "u", "a", "l">>>>],
      [operator |-> "between",
       literals |-> <<<<"e", "n", "t", "r", "e">>,
                    <<"b", "e", "t", "w", "e", "e", "n">>>>],
      [operator |-> "contains",
       literals |-> <<<<"c", "o", "n", "t", "i", "e", "n", "e">>,
                    <<"c", "o", "n", "t", "a", "i", "n", "s">>,
                    <<"i", "n", "c", "l", "u", "y", "e">>,
                    <<"i", "n", "c", "l", "u", "d", "e", "s">>,
                    <<"c", "o", "n", " ">>>>]>>

\* the unit patterns in the order they are tested
unitPatterns ==
    <<[unit |-> "EUR",
       literals |-> <<<<"EUR-SIGN">>,
                    <<"e", "u", "r">>,
                    <<"e", "u", "r", "o">>>>],
      [unit |-> "USD",
       literals |-> <<<<"$">>,
                    <<"u", "s", "d">>,
                    <<"d", "o", "l", "l", "a", "r">>,
                    <<"d", "o", "l", "a", "r", "e">>>>],
      [unit |-> "sqm",
       literals |-> <<<<"m", "SUP-2">>,
                    <<"m", "2">>,
                    <<"s", "q", "m">>,
                    <<"m", "e", "t", "r", "o", " ", "c", "u", "a", "d", "r", "a", "d", "o">>,
                    <<"m", "e", "t", "r", "o", "s", " ", "c", "u", "a", "d", "r", "a", "d", "o">>,
                    <<"s", "q", "u", "a", "r", "e", " ", "m", "e", "t", "e", "r">>>>],
      [unit |-> "sqft",
       literals |-> <<<<"f", "t", "SUP-2">>,
                    <<"s", "q", "f", "t">>,
                    <<"s", "q", "u", "a", "r", "e", " ", "f", "e", "e", "t">>,
                    <<"p", "i", "e", " ", "c", "u", "a", "d", "r", "a", "d", "o">>,
                    <<"p", "i", "e", "s", " ", "c", "u", "a", "d", "r", "a", "d", "o">>>>],
      [unit |-> "kg",
       literals |-> <<<<"k", "g">>,
                    <<"k", "i", "l", "o">>,
                    <<"k", "i", "l", "o", "g", "r", "a", "m", "o">>>>],
      [unit |-> "ton",
       literals |-> <<<<"t", "o", "n">>,
                    <<"t", "o", "n", "e", "l", "a", "d", "a">>>>],
      [unit |-> "unit",
       literals |-> <<<<"u", "n", "i", "d", "a", "d">>,
                    <<"u", "n", "i", "d", "a", "d", "e", "s">>,
                    <<"u", "n", "i", "t">>,
                    <<"u", "n", "i", "t", "s">>,
                    <<"p", "c", "s">>,
                    <<"p", "i", "e", "z", "a">>>>]>>

\* the index of the first entry of a pattern table that matches, 0 if none
FirstMatch(text, patterns) ==
    LET lowerText == TextLower(text)
        test == [k \in 1..Len(patterns) |-> TestAny(lowerText, patterns[k].literals)]
    IN IF \E k \in 1..Len(patterns) : test[k]
       THEN CHOOSE k \in 1..Len(patterns) : test[k] /\ \A j \in 1..(k - 1) : ~test[j]
       ELSE 0

\* resolveField: the first field one of whose aliases the trimmed lower-case
\* input contains, "null" if none
resolveField(input) ==
    LET normalizedInput == Trim(TextLower(input))
        hit == [k \in 1..Len(fieldAliases) |->
                   TestAny(normalizedInput, fieldAliases[k].aliases)]
    IN IF \E k \in 1..Len(fieldAliases) : hit[k]
       THEN fieldAliases[CHOOSE k \in 1..Len(fieldAliases) :
                            hit[k] /\ \A j \in 1..(k - 1) : ~hit[j]].field
       ELSE "null"

detectOperator(text) ==
    LET k == FirstMatch(text, operatorPatterns)
    IN IF k = 0 THEN "null" ELSE operatorPatterns[k].operator

detectUnit(text) ==
    LET k == FirstMatch(text, unitPatterns)
    IN IF k = 0 THEN "none" ELSE unitPatterns[k].unit

\* the values extractValue returns
NullValue == [kind |-> "null", n |-> 0, m |-> 0, text |-> <<>>]
NumberValue(n) == [kind |-> "number", n |-> n, m |-> 0, text |-> <<>>]
RangeValue(n, m) == [kind |-> "range", n |-> n, m |-> m, text |-> <<>>]
StringValue(t) == [kind |-> "string", n |-> 0, m |-> 0, text |-> t]

\* the separator of the range pattern at index k of s: its length, 0 if none
\* (-, to, a, y; the i flag)
RangeSeparator(s, k) ==
    IF k > Len(s) THEN 0
    ELSE IF s[k] = "-" THEN 1
    ELSE IF OccursAt(TextLower(s), k, <<"t", "o">>) THEN 2
    ELSE IF CharLower(s[k]) \in {"a", "y"} THEN 1
    ELSE 0

\* the range pattern (\d+)\s*(?:-|to|a|y)\s*(\d+) matched at index i of s:
\* the index of the second number, 0 if the pattern does not match at i
RangeSecondAt(s, i) ==
    IF ~IsDigit(s[i]) THEN 0
    ELSE LET k == SkipSpaces(s, DigitRunEnd(s, i) + 1)
             sep == RangeSeparator(s, k)
             l == SkipSpaces(s, k + sep)
         IN IF sep > 0 /\ l <= Len(s) /\ IsDigit(s[l]) THEN l ELSE 0

\* the words the string branch of extractValue deletes, in the order of the
\* alternation (an optional last letter first with it, then without)
noiseWords ==
    <<<<"m", "a", "y", "o", "r">>,
      <<"m", "e", "n", "o", "r">>,
      <<"i", "g", "u", "a", "l">>,
      <<"q", "u", "e">>,
      <<"a">>,
      <<"d", "e">>,
      <<"o">>,
      <<"e", "s">>,
      <<"n", "o">>,
      <<"e", "n", "t", "r", "e">>,
      <<"y">>,
      <<"c", "o", "n", "t", "i", "e", "n", "e">>,
      <<"c", "o", "n">>,
      <<"i", "n", "c", "l", "u", "d", "e", "s">>,
      <<"i", "n", "c", "l", "u", "d", "e">>,
      <<"g", "r", "e", "a", "t", "e", "r">>,
      <<"l", "e", "s", "s">>,
      <<"t", "h", "a", "n">>,
      <<"e", "q", "u", "a", "l">>,
      <<"b", "e", "t", "w", "e", "e", "n">>,
      <<"a", "n", "d">>,
      <<"c", "o", "n", "t", "a", "i", "n", "s">>,
      <<"c", "o", "n", "t", "a", "i", "n">>>>

\* the length of the first noise word that occurs at the head of s, 0 if none
NoiseAtHead(s) ==
    LET lower == TextLower(s)
        hit == [k \in 1..Len(noiseWords) |-> OccursAt(lower, 1, noiseWords[k])]
    IN IF \E k \in 1..Len(noiseWords) : hit[k]
       THEN Len(noiseWords[CHOOSE k \in 1..Len(noiseWords) :
                              hit[k] /\ \A j \in 1..(k - 1) : ~hit[j]])
       ELSE 0

\* replace(/mayor|menor|.../gi, ''): matches are deleted from left to right
RECURSIVE StripNoise(_)
StripNoise(s) ==
    IF s = <<>> THEN <<>>
    ELSE LET n == NoiseAtHead(s)
         IN IF n > 0 THEN StripNoise(SubSeq(s, n + 1, Len(s)))
            ELSE <<Head(s)>> \o StripNoise(Tail(s))

\* an extractValue that looks for a single number before a range
extractValueNumberFirst(text) ==
    LET digits == {i \in 1..Len(text) : IsDigit(text[i])}
        Min(S) == CHOOSE x \in S : \A y \in S : x <= y
    IN IF digits # {}
       THEN NumberValue(ParseNumber(SubSeq(text, Min(digits), DigitRunEnd(text, Min(digits)))))
       ELSE NullValue

operatorChars == {"<", ">", "=", "!", "GE-SIGN", "LE-SIGN", "NE-SIGN"}

extractValue(text) ==
    LET rangeStarts == {i \in 1..Len(text) : RangeSecondAt(text, i) > 0}
        digits == {i \in 1..Len(text) : IsDigit(text[i])}
        Min(S) == CHOOSE x \in S : \A y \in S : x <= y
    IN IF rangeStarts # {}
       THEN LET i == Min(rangeStarts)
                l == RangeSecondAt(text, i)
            IN RangeValue(ParseNumber(SubSeq(text, i, DigitRunEnd(text, i))),
                          ParseNumber(SubSeq(text, l, DigitRunEnd(text, l))))
       ELSE IF digits # {}
       THEN LET i == Min(digits)
            IN NumberValue(ParseNumber(SubSeq(text, i, DigitRunEnd(text, i))))
       ELSE LET cleanedText ==
                    Trim(StripNoise(SelectSeq(text, LAMBDA c : c \notin operatorChars)))
            IN IF Len(cleanedText) > 0 THEN StringValue(cleanedText) ELSE NullValue

\* the delimiter pattern /[,;]|\s+y\s+|\s+and\s+/i matched at index i of s: the
\* index of its last character, 0 if it does not match at i
DelimiterEnd(s, i) ==
    IF s[i] \in {",", ";"} THEN i
    ELSE IF ~IsSpace(s[i]) THEN 0
    ELSE LET k == SkipSpaces(s, i)
             lower == TextLower(s)
         IN IF OccursAt(lower, k, <<"y">>) /\ k + 1 <= Len(s) /\ IsSpace(s[k + 1])
            THEN SkipSpaces(s, k + 1) - 1
            ELSE IF OccursAt(lower, k, <<"a", "n", "d">>) /\ k + 3 <= Len(s)
                    /\ IsSpace(s[k + 3])
            THEN SkipSpaces(s, k + 3) - 1
            ELSE 0

\* String.prototype.split on the delimiter pattern, scanning from index i with
\* the current piece starting at index start
RECURSIVE SplitFrom(_, _, _)
SplitFrom(s, i, start) ==
    IF i > Len(s) THEN <<SubSeq(s, start, Len(s))>>
    ELSE LET e == DelimiterEnd(s, i)
         IN IF e > 0
            THEN <<SubSeq(s, start, i - 1)>> \o SplitFrom(s, e + 1, e + 1)
            ELSE SplitFrom(s, i + 1, start)

\* a split that finds no delimiter
SegmentsUnsplit(query) == SelectSeq(<<Trim(query)>>, LAMBDA t : t # <<>>)

\* query.split(...).map(s => s.trim()).filter(Boolean)
Segments(query) ==
    LET pieces == SplitFrom(query, 1, 1)
    IN SelectSeq([k \in 1..Len(pieces) |-> Trim(pieces[k])], LAMBDA t : t # <<>>)

\* the four readings of a segment made at the top of the loop body
ReadSegment(segment) ==
    LET operator == detectOperator(segment)
    IN [field |-> resolveField(segment),
        operator |-> IF operator = "null" THEN "contains" ELSE operator,
        value |-> extractValue(segment),
        unit |-> detectUnit(segment)]

\* a loop body without the length threshold of the unrecognized list
SegmentFateNoThreshold(segment, read) ==
    IF read.field # "null" /\ read.value # NullValue THEN "filter" ELSE "unrecognized"

\* what one segment contributes: "filter", "unrecognized" or "dropped"
SegmentFate(segment, read) ==
    IF read.field # "null" /\ read.value # NullValue THEN "filter"
    ELSE IF Len(segment) > 2 THEN "unrecognized"
    ELSE "dropped"

\* the ParsedFilter of a segment; id is the counter part of generateFilterId
ParsedFilter(segment, read, id) ==
    [id |-> id, field |-> read.field, operator |-> read.operator,
     value |-> read.value, unit |-> read.unit, rawInput |-> segment]

\* the loop of parseNaturalLanguageQuery over the segments from index k on
RECURSIVE ParseSegments(_, _, _)
ParseSegments(segments, k, acc) ==
    IF k > Len(segments) THEN acc
    ELSE LET segment == segments[k]
             read == ReadSegment(segment)
             fate == SegmentFate(segment, read)
         IN ParseSegments(segments, k + 1,
               IF fate = "filter"
               THEN [acc EXCEPT !.counter = @ + 1,
                                !.filters = Append(@, ParsedFilter(segment, read, acc.counter + 1))]
               ELSE IF fate = "unrecognized"
               THEN [acc EXCEPT !.unrecognized = Append(@, segment)]
               ELSE acc)

\* parseNaturalLanguageQuery with the counter it starts from: the ParseResult
\* and the counter it leaves
parseNaturalLanguageQuery(query, counter) ==
    LET acc == ParseSegments(Segments(query), 1,
                   [filters |-> <<>>, unrecognized |-> <<>>, counter |-> counter])
    IN [success |-> Len(acc.filters) > 0,
        filters |-> acc.filters,
        unrecognized |-> acc.unrecognized,
        counter |-> acc.counter]

(***************************************************************************)
(* SmartFilter: the filter box and its active filter list                  *)
(***************************************************************************)
\* the parts a typed segment is made of: something naming a field (or not),
\* an operator, a value and a unit
FieldTexts ==
    {<<"c", "o", "s", "t">>,
    <<"A", "R", "E", "A">>,
    <<"x", "y">>,
    <<>>}
OperatorTexts ==
    {<<" ", ">", "=", " ">>,
    <<" ", "<", "=", " ">>,
    <<" ", "!", "=", " ">>,
    <<" ", ">", " ">>,
    <<" ", "<", " ">>,
    <<" ", "=", " ">>,
    <<" ">>}
ValueTexts ==
    {<<"1", "0", "0">>,
    <<"1", "0", "0", "-", "5", "0", "0">>,
    <<"1", "0", "0", " ", "t", "o", " ", "5", "0", "0">>,
    <<"1", "0", "0", " ", "a", " ", "5", "0", "0">>,
    <<"a", "b">>,
    <<>>}
UnitTexts ==
    {<<>>,
    <<"m", "2">>}

SegmentTexts ==
    {f \o o \o v \o u : f \in FieldTexts, o \in OperatorTexts, v \in ValueTexts,
                        u \in UnitTexts}

\* segments that are put together into longer queries
SegmentPool ==
    {<<"c", "o", "s", "t", " ", ">", "=", " ", "1", "0", "0">>,
    <<"a", "r", "e", "a", " ", "1", "0", "0", "-", "5", "0", "0">>,
    <<"c", "o", "s", "t", " ", "!", "=", " ", "1", "0", "0">>,
    <<"a", "b">>,
    <<"x", "y", "z">>}
DelimiterTexts ==
    {<<",", " ">>,
    <<" ", "y", " ">>,
    <<" ", "A", "N", "D", " ">>}

MaxSegments == 2

RECURSIVE JoinedQueries(_)
\* the queries of n pool segments with a delimiter between neighbours
JoinedQueries(n) ==
    IF n = 1 THEN SegmentPool
    ELSE {q \o d \o g : q \in JoinedQueries(n - 1), d \in DelimiterTexts, g \in SegmentPool}

\* the documented example input
ExampleQuery ==
    <<"m", "a", "t", "e", "r", "i", "a", "l", "e", "s", " ", ">", " ", "5", "0", "0", "EUR-SIGN", ",", " ", "a", "r", "e", "a", " ", "<", " ", "5", "0", "m", "2">>

\* the texts a user types into the filter box
QueryUniverse ==
    SegmentTexts \cup UNION {JoinedQueries(n) : n \in 1..MaxSegments}
        \cup {ExampleQuery, <<"c", "o", "s", "t", " ", ">", "=", " ", "1", "0", "0", " ", "<", "=", " ", "2", "0", "0">>, <<"c", "o", "s", "t", " ", "<", ">", " ", "5">>, <<",", " ", ",">>}

NoParse == [done |-> FALSE]

\* a filter already in the active list (the filters prop)
PriorFilter ==
    [id |-> 0, field |-> "cost", operator |-> "gt", value |-> NumberValue(1),
     unit |-> "none", rawInput |-> <<"c", "o", "s", "t", " ", ">", " ", "1">>]

ParserInit ==
    /\ inputValue = <<>>
    /\ internalFilters \in {<<>>, <<PriorFilter>>}
    /\ filterIdCounter = 0
    /\ parsed = NoParse

ParserFrame ==
    UNCHANGED <<storeVars, viewVars, queryVars, mapperVars, loaderVars, clientVars,
                mappingVars, tableVars, searchVars>>

\* onChange of the input: setInputValue(e.target.value)
TypeInput(text) ==
    /\ ~parsed.done /\ inputValue = <<>>
    /\ inputValue' = text
    /\ UNCHANGED <<internalFilters, filterIdCounter, parsed>>
    /\ ParserFrame

\* handleSubmit (Enter): nothing on a blank input; otherwise parse, and on
\* success append the parsed filters and clear the input
HandleSubmit ==
    /\ ~parsed.done
    /\ IF Trim(inputValue) = <<>>
       THEN UNCHANGED parserVars
       ELSE \E result \in {parseNaturalLanguageQuery(inputValue, filterIdCounter)} :
               /\ parsed' = [done |-> TRUE, input |-> inputValue, result |-> result,
                             before |-> internalFilters]
               /\ filterIdCounter' = result.counter
               /\ IF result.success
                  THEN /\ internalFilters' = internalFilters \o result.filters
                       /\ inputValue' = <<>>
                  ELSE UNCHANGED <<internalFilters, inputValue>>
    /\ ParserFrame

ParserNext ==
    \/ \E text \in QueryUniverse : TypeInput(text)
    \/ HandleSubmit

(***************************************************************************)
(* Server row store (parquet reader): loadParquetData with its dataCache,  *)
(* getCachedResult / setCachedResult with the queryCache, the callers      *)
(* queryWorkItems, getStats and getColumns, and clearCache.  A call runs   *)
(* without interruption up to `await parquet.ParquetReader.openFile`; other *)
(* calls run while the file is being read, and the call resumes when the   *)
(* rows are in.  Time is counted in ticks; the two TTLs keep their 2 : 1   *)
(* ratio (10 minutes and 5 minutes).                                       *)
(***************************************************************************)
MaxClock == 2
MaxCalls == 2
CACHE_TTL == 2
QUERY_CACHE_TTL == 1

REGIONS ==
    {"ar-dubai", "de-berlin", "en-toronto", "es-barcelona", "fr-paris", "hi-mumbai",
     "pt-saopaulo", "ru-stpetersburg", "zh-shanghai"}
RegionKeys == {"es-barcelona", "en-london"}
CallKinds == {"workitems", "stats", "columns"}
CacheKeys == CallKinds \X RegionKeys

isValidRegionAny(key) == TRUE

isValidRegion(key) == key \in REGIONS

NoEntry == [has |-> FALSE]
CachedData(region, timestamp) ==
    [has |-> TRUE, region |-> region, timestamp |-> timestamp]
CachedResult(result, timestamp) ==
    [has |-> TRUE, data |-> result, timestamp |-> timestamp]

\* What a caller computes from a loaded row set: the rows are those of the
\* region's file as read at `loaded.timestamp`.
ResultOf(kind, loaded) ==
    [kind |-> kind, region |-> loaded.region, loadedAt |-> loaded.timestamp]

DataCacheHit(region) ==
    /\ dataCache[region].has
    /\ now - dataCache[region].timestamp < CACHE_TTL

QueryCacheHit(key) ==
    /\ queryCache[key].has
    /\ now - queryCache[key].timestamp < QUERY_CACHE_TTL

\* getCachedResult deletes the entry it does not return.
AfterGetCachedResult(key) ==
    IF QueryCacheHit(key) THEN queryCache ELSE [queryCache EXCEPT ![key] = NoEntry]

setCachedResult(cache, key, result) ==
    [cache EXCEPT ![key] = CachedResult(result, now)]

\* The cache keys a step has added: present after it, absent before it.
AddedEntries ==
    {key \in CacheKeys : queryCache'[key].has /\ ~queryCache[key].has}
        \cup {<<"data", region>> : region \in
                {r \in RegionKeys : dataCache'[r].has /\ ~dataCache[r].has}}

NoCall == [pc |-> "idle"]
\* A call that is reading the file; `cleared` is history: clearCache ran since
\* the read began.
Reading(kind, region) ==
    [pc |-> "reading", kind |-> kind, region |-> region, cleared |-> FALSE]
Returned(kind, region, result, readFile) ==
    [pc |-> "returned", kind |-> kind, region |-> region, data |-> result,
     readFile |-> readFile]
Threw(kind, region, message, readFile, added) ==
    [pc |-> "threw", kind |-> kind, region |-> region, error |-> message,
     readFile |-> readFile, added |-> added]

LoaderInit ==
    /\ now = 0
    /\ files = REGIONS
    /\ dataCache = [region \in RegionKeys |-> NoEntry]
    /\ queryCache = [key \in CacheKeys |-> NoEntry]
    /\ calls = [i \in 1..MaxCalls |-> NoCall]
    /\ outcome = NoCall

LoaderFrame ==
    UNCHANGED <<storeVars, viewVars, queryVars, mapperVars, parserVars, clientVars,
                mappingVars, tableVars, searchVars>>

\* queryWorkItems / getStats / getColumns up to the first file read:
\* getCachedResult, then loadParquetData's cache test, region test and
\* existsSync test.
Call(i, kind, region) ==
    LET key == <<kind, region>> IN
    /\ calls[i].pc = "idle"
    /\ LoaderFrame
    /\ UNCHANGED <<now, files, dataCache>>
    /\ IF QueryCacheHit(key)
       THEN /\ UNCHANGED queryCache
            /\ UNCHANGED calls
            /\ outcome' = (Returned(kind, region, queryCache[key].data, FALSE))
       ELSE IF DataCacheHit(region)
       THEN /\ queryCache' = setCachedResult(AfterGetCachedResult(key), key,
                                 ResultOf(kind, dataCache[region]))
            /\ UNCHANGED calls
            /\ outcome' = (Returned(kind, region,
                                   ResultOf(kind, dataCache[region]), FALSE))
       ELSE IF ~isValidRegion(region)
       THEN /\ queryCache' = AfterGetCachedResult(key)
            /\ UNCHANGED calls
            /\ outcome' = (Threw(kind, region, "Invalid region", FALSE,
                                AddedEntries))
       ELSE IF region \notin files
       THEN /\ queryCache' = AfterGetCachedResult(key)
            /\ UNCHANGED calls
            /\ outcome' = (Threw(kind, region, "Parquet file not found", FALSE,
                                AddedEntries))
       ELSE /\ queryCache' = AfterGetCachedResult(key)
            /\ calls' = [calls EXCEPT ![i] = Reading(kind, region)]
            /\ UNCHANGED outcome

\* The rest of loadParquetData and of its caller: the rows are in, the data
\* cache and the query cache are written; or openFile rejects because the
\* file has gone since existsSync.
FinishRead(i) ==
    LET kind == calls[i].kind
        region == calls[i].region
        loaded == CachedData(region, now)
    IN
    /\ calls[i].pc = "reading"
    /\ LoaderFrame
    /\ UNCHANGED <<now, files>>
    /\ calls' = [calls EXCEPT ![i] = NoCall]
    /\ IF region \in files
       THEN /\ dataCache' = [dataCache EXCEPT ![region] = loaded]
            /\ queryCache' = setCachedResult(queryCache, <<kind, region>>,
                                             ResultOf(kind, loaded))
            /\ outcome' = (Returned(kind, region, ResultOf(kind, loaded), TRUE))
       ELSE /\ UNCHANGED <<dataCache, queryCache>>
            /\ outcome' = (Threw(kind, region, "ENOENT", TRUE, AddedEntries))

clearCache ==
    /\ LoaderFrame
    /\ UNCHANGED <<now, files, outcome>>
    /\ queryCache' = [key \in CacheKeys |-> NoEntry]
    /\ dataCache' = [region \in RegionKeys |-> NoEntry]
    /\ calls' = [i \in 1..MaxCalls |->
                   IF calls[i].pc = "reading"
                   THEN [calls[i] EXCEPT !.cleared = TRUE] ELSE calls[i]]

Tick ==
    /\ now < MaxClock
    /\ LoaderFrame
    /\ now' = now + 1
    /\ UNCHANGED <<files, dataCache, queryCache, calls, outcome>>

\* The data directory changes under the server: a file appears or goes.
FileChange(region) ==
    /\ LoaderFrame
    /\ files' = IF region \in files THEN files \ {region} ELSE files \cup {region}
    /\ UNCHANGED <<now, dataCache, queryCache, calls, outcome>>

LoaderNext ==
    \/ \E i \in 1..MaxCalls, kind \in CallKinds, region \in RegionKeys :
           Call(i, kind, region)
    \/ \E i \in 1..MaxCalls : FinishRead(i)
    \/ clearCache
    \/ Tick
    \/ \E region \in REGIONS \cap RegionKeys : FileChange(region)

(***************************************************************************)
(* Client work-item query: the region store, useWorkItems (one query per   *)
(* region key in the QueryClient, fetchWorkItems as its queryFn), the      *)
(* QueryClient defaults of QueryProvider (retry: 2), the /api/workitems     *)
(* route that answers, and displayItems of the dashboard page.  A response *)
(* body is a record; reading a field it does not have gives undefined.     *)
(***************************************************************************)
RegionCodes == {"es-barcelona", "de-berlin", "en-london"}
DEFAULT_REGION == "es-barcelona"
retry == 2

RowsOf(region) ==
    IF region = "es-barcelona"
    THEN <<[id |-> 1, unitCost |-> 10], [id |-> 2, unitCost |-> 20]>>
    ELSE <<[id |-> 3, unitCost |-> 30]>>

MOCK_CONSTRUCTION_ITEMS ==
    <<[id |-> 91, costoUnitario |-> 5, cantidad |-> 2, subtotal |-> 10]>>

\* GET /api/workitems: 400 for a key isValidRegion rejects, 500 when
\* queryWorkItems throws, else the query result spread into the body.
RouteResponse(region, available) ==
    IF ~isValidRegion(region)
    THEN [ok |-> FALSE, status |-> 400,
          body |-> [success |-> FALSE, error |-> "Invalid region",
                    region |-> DEFAULT_REGION, items |-> <<>>, total |-> 0]]
    ELSE IF ~available
    THEN [ok |-> FALSE, status |-> 500,
          body |-> [success |-> FALSE, error |-> "Parquet file not found",
                    region |-> DEFAULT_REGION, items |-> <<>>, total |-> 0]]
    ELSE [ok |-> TRUE, status |-> 200,
          body |-> [success |-> TRUE, region |-> region,
                    items |-> RowsOf(region), total |-> Len(RowsOf(region))]]

\* The same route answering 200 when the query matches no row of the file.
EmptyResponse(region) ==
    [ok |-> TRUE, status |-> 200,
     body |-> [success |-> TRUE, region |-> region, items |-> <<>>, total |-> 0]]

HasField(object, name) == name \in DOMAIN object

\* fetchWorkItems on a response that is not ok: error.message || 'Failed ...'.
FetchError(response) ==
    IF HasField(response.body, "message")
    THEN response.body.message
    ELSE "Failed to fetch work items"

NoData == [undefined |-> TRUE]

\* The state of a query: React Query's status, fetchStatus, data, error and
\* fetchFailureCount, and the retryer's isRetryCancelled.
QueryState(status, fetchStatus, queryData, error, failureCount, retryCancelled) ==
    [status |-> status, fetchStatus |-> fetchStatus, data |-> queryData,
     error |-> error, failureCount |-> failureCount,
     retryCancelled |-> retryCancelled]

NewQuery == QueryState("pending", "idle", NoData, "", 0, FALSE)

\* The query starts a fetch: the failure count restarts, data is kept.
Fetching(query) ==
    QueryState(IF query.data = NoData THEN "pending" ELSE query.status, "fetching",
          query.data, IF query.data = NoData THEN "" ELSE query.error, 0, FALSE)

ClientInit ==
    /\ selectedRegion = DEFAULT_REGION
    /\ queries = [region \in RegionCodes |->
                    IF region = DEFAULT_REGION THEN Fetching(NewQuery) ELSE NewQuery]
    /\ fetches = {DEFAULT_REGION}
    /\ shown = ""

ClientFrame ==
    UNCHANGED <<storeVars, viewVars, queryVars, mapperVars, parserVars, loaderVars,
                mappingVars, tableVars, searchVars>>

\* setRegion, and the observer of useWorkItems moving to the new query key:
\* it leaves the old query (whose retryer stops retrying), and on the new one
\* it joins a running fetch, or fetches when there is no data or the data is
\* stale (older than staleTime).
SetRegion(region, stale) ==
    LET old == queries[selectedRegion]
        new == queries[region]
        fetchNow == new.fetchStatus = "idle" /\ (new.data = NoData \/ stale)
    IN
    /\ region # selectedRegion
    /\ ClientFrame
    /\ selectedRegion' = region
    /\ queries' = [queries EXCEPT
           ![selectedRegion] = IF old.fetchStatus = "fetching"
                               THEN [old EXCEPT !.retryCancelled = TRUE] ELSE old,
           ![region] = IF fetchNow THEN Fetching(new)
                       ELSE [new EXCEPT !.retryCancelled = FALSE]]
    /\ fetches' = IF fetchNow THEN fetches \cup {region} ELSE fetches
    /\ shown' = IF new.data # NoData THEN region ELSE shown

\* The failed attempt ends the fetch: the error is surfaced.
Rejected(query, message) ==
    QueryState("error", "idle", query.data, message, query.failureCount + 1, FALSE)

\* The HTTP request of a query is answered; fetchWorkItems returns the body
\* or throws, and the retryer retries while failureCount < retry.
Answered(region, response) ==
    LET query == queries[region] IN
    /\ region \in fetches
    /\ ClientFrame
    /\ UNCHANGED selectedRegion
    /\ fetches' = fetches \ {region}
    /\ IF response.ok
       THEN /\ queries' = [queries EXCEPT
                   ![region] = QueryState("success", "idle", response.body, "", 0, FALSE)]
            /\ shown' = IF region = selectedRegion THEN region ELSE shown
       ELSE /\ queries' = [queries EXCEPT
                   ![region] =
                       IF query.retryCancelled \/ ~(query.failureCount < retry)
                       THEN Rejected(query, FetchError(response))
                       ELSE [query EXCEPT !.failureCount = @ + 1]]
            /\ UNCHANGED shown

Respond(region, available) == Answered(region, RouteResponse(region, available))

\* The request is answered with a result of zero rows.
RespondEmpty(region) ==
    isValidRegion(region) /\ Answered(region, EmptyResponse(region))

\* retryDelay has passed: the retryer runs the queryFn again, unless the
\* retry was cancelled meanwhile.
RetryFetch(region) ==
    LET query == queries[region] IN
    /\ query.fetchStatus = "fetching"
    /\ region \notin fetches
    /\ ClientFrame
    /\ UNCHANGED <<selectedRegion, shown>>
    /\ IF query.retryCancelled
       THEN /\ queries' = [queries EXCEPT
                   ![region] = QueryState("error", "idle", query.data,
                                     "Failed to fetch work items",
                                     query.failureCount, FALSE)]
            /\ UNCHANGED fetches
       ELSE /\ fetches' = fetches \cup {region}
            /\ UNCHANGED queries

ClientNext ==
    \/ \E region \in RegionCodes, stale \in BOOLEAN : SetRegion(region, stale)
    \/ \E region \in RegionCodes, available \in BOOLEAN : Respond(region, available)
    \/ \E region \in RegionCodes : RespondEmpty(region)
    \/ \E region \in RegionCodes : RetryFetch(region)

\* useWorkItems().data: the selected region's data, or while that query is
\* pending the data of the query the observer held before (placeholderData).
workItemsData ==
    LET query == queries[selectedRegion] IN
    IF query.data # NoData THEN query.data
    ELSE IF query.status = "pending" /\ shown # "" THEN queries[shown].data
    ELSE NoData

\* useWorkItems().isLoading: fetching with nothing to show, not even
\* placeholder data.
isLoadingItems ==
    LET query == queries[selectedRegion] IN
    /\ query.status = "pending"
    /\ query.fetchStatus = "fetching"
    /\ workItemsData = NoData

\* useWorkItems().error ("" for null)
itemsError == queries[selectedRegion].error

\* page.tsx: one table row per API item.
DisplayItem(item) ==
    [id |-> item.id, costoUnitario |-> item.unitCost, cantidad |-> 1,
     subtotal |-> item.unitCost]

\* page.tsx displayItems: workItemsData?.data mapped, else the mock rows.
displayItems ==
    IF HasField(workItemsData, "data") /\ Len(workItemsData.data) > 0
    THEN [n \in 1..Len(workItemsData.data) |-> DisplayItem(workItemsData.data[n])]
    ELSE MOCK_CONSTRUCTION_ITEMS

(***************************************************************************)
(* Row mapping and aggregate summaries: mapToConstructionItem,             *)
(* mapBatchToConstructionItems, the three aggregateBy* functions and       *)
(* calculateTotalCost of workitem-mapper.ts, createConstructionItem of     *)
(* types.ts.  Amounts are whole numbers; a null number is NullNumber and a *)
(* text the code only tests with || is "" when it is null or empty.        *)
(***************************************************************************)
MaxSourceRows == 2

\* a ?? b
Coalesce(a, b) == IF a # NullNumber THEN a ELSE b

\* a || b on texts
OrText(a, b) == IF a # "" THEN a ELSE b

\* the amounts of a source row: resource_price_per_unit, price_est_median,
\* price_est_mean, resource_quantity, resource_cost
RowAmounts ==
    {<<NullNumber, NullNumber, NullNumber, NullNumber, NullNumber>>,
     <<3, NullNumber, NullNumber, 2, NullNumber>>,
     <<NullNumber, 5, NullNumber, NullNumber, NullNumber>>,
     <<NullNumber, NullNumber, 4, 2, NullNumber>>,
     <<3, 5, 4, 2, 7>>,
     <<3, NullNumber, NullNumber, NullNumber, 0>>}

\* the group names of a source row: category_type, department_name,
\* collection_name (the two codes are always present)
RowGroups == {<<"x", "d", "c">>, <<"", "", "">>, <<"y", "", "c">>}

SourceRows ==
    {[rate_code |-> code,
      resource_price_per_unit |-> am[1], price_est_median |-> am[2],
      price_est_mean |-> am[3], resource_quantity |-> am[4],
      resource_cost |-> am[5],
      category_type |-> gr[1], department_name |-> gr[2],
      department_code |-> "dc", collection_name |-> gr[3],
      collection_code |-> "cc"] :
        code \in {"", "R1"}, am \in RowAmounts, gr \in RowGroups}

SourceLists == SeqsUpTo(SourceRows, MaxSourceRows)

\* index.toString().padStart(5, '0') for an index below 10
PadStart5(index) ==
    "0000" \o <<"0", "1", "2", "3", "4", "5", "6", "7", "8", "9">>[index + 1]

mapToConstructionItemNoOverride(row, index) ==
    LET unitPrice == Coalesce(row.resource_price_per_unit,
                              Coalesce(row.price_est_median,
                                       Coalesce(row.price_est_mean, 0)))
        quantity == Coalesce(row.resource_quantity, 1)
    IN  [id |-> OrText(row.rate_code, "ITEM-" \o PadStart5(index)),
         costoUnitario |-> unitPrice,
         cantidad |-> quantity,
         subtotal |-> unitPrice * quantity,
         categoria |-> OrText(row.category_type, OrText(row.department_name, Undef))]

mapToConstructionItem(row, index) ==
    LET unitPrice == Coalesce(row.resource_price_per_unit,
                              Coalesce(row.price_est_median,
                                       Coalesce(row.price_est_mean, 0)))
        quantity == Coalesce(row.resource_quantity, 1)
        subtotal == Coalesce(row.resource_cost, unitPrice * quantity)
    IN  [id |-> OrText(row.rate_code, "ITEM-" \o PadStart5(index)),
         costoUnitario |-> unitPrice,
         cantidad |-> quantity,
         subtotal |-> subtotal,
         categoria |-> OrText(row.category_type, OrText(row.department_name, Undef))]

\* rows.map((row, index) => mapToConstructionItem(row, index)): index from 0
mapBatchToConstructionItems(list) ==
    [n \in 1..Len(list) |-> mapToConstructionItem(list[n], n - 1)]

\* createConstructionItem: the input's fields and the computed subtotal
ItemInputs ==
    [id : {"N1"}, costoUnitario : {0, 3}, cantidad : {0, 2}, categoria : {Undef}]

createConstructionItem(input) ==
    [id |-> input.id, costoUnitario |-> input.costoUnitario,
     cantidad |-> input.cantidad,
     subtotal |-> input.costoUnitario * input.cantidad,
     categoria |-> input.categoria]

\* the cost of a row in aggregateByCategory and calculateTotalCost
CostWithMean(item) ==
    Coalesce(item.resource_cost,
             Coalesce(item.price_est_median, Coalesce(item.price_est_mean, 0)))

\* the cost of a row in aggregateByDepartment and aggregateByCollection
CostWithoutMean(item) ==
    Coalesce(item.resource_cost, Coalesce(item.price_est_median, 0))

RECURSIVE Sum(_)
\* the sum of a list of numbers, from the left
Sum(numbers) ==
    IF numbers = <<>> THEN 0
    ELSE Sum(SubSeq(numbers, 1, Len(numbers) - 1)) + numbers[Len(numbers)]

\* items.reduce((sum, item) => sum + Cost(item), 0)
SumOver(list, Cost(_)) == Sum([n \in 1..Len(list) |-> Cost(list[n])])

calculateTotalCost(items) == SumOver(items, CostWithMean)

RECURSIVE Distinct(_)
\* a list without its repetitions, each element where it comes first
Distinct(list) ==
    IF list = <<>> THEN <<>>
    ELSE LET before == Distinct(SubSeq(list, 1, Len(list) - 1))
             k == list[Len(list)]
         IN  IF ListIncludes(before, k) THEN before ELSE Append(before, k)

\* the keys of the Map in insertion order: the group of every row
KeysInOrder(list, Key(_)) == Distinct([n \in 1..Len(list) |-> Key(list[n])])

\* the rows of list in the group k
Members(list, Key(_), k) == SelectSeq(list, LAMBDA item : Key(item) = k)

\* Array.from(map.entries()).map(...).sort((a, b) => b.value - a.value)
GroupBy(list, Key(_), Cost(_)) ==
    LET keys == KeysInOrder(list, Key)
        total == SumOver(list, Cost)
        entries == [n \in 1..Len(keys) |->
                      LET members == Members(list, Key, keys[n])
                          value == SumOver(members, Cost)
                      IN  [name |-> keys[n], value |-> value,
                           count |-> Len(members),
                           percentage |-> IF total > 0
                                          THEN [num |-> value * 100, den |-> total]
                                          ELSE [num |-> 0, den |-> 1]]]
        cmp == [p \in (1..Len(keys)) \X (1..Len(keys)) |->
                  entries[p[2]].value - entries[p[1]].value]
    IN  Pick(entries, StableSort(Positions(entries), cmp))

CategoryOf(item) == OrText(item.category_type, "Other")
DepartmentOf(item) == OrText(item.department_name, OrText(item.department_code, "Unknown"))
CollectionOf(item) == OrText(item.collection_name, OrText(item.collection_code, "Unknown"))

aggregateByCategory(items, topN) ==
    LET all == GroupBy(items, CategoryOf, CostWithMean)
    IN  SubSeq(all, 1, IF topN < Len(all) THEN topN ELSE Len(all))

aggregateByDepartment(items) == GroupBy(items, DepartmentOf, CostWithoutMean)

aggregateByCollection(items) == GroupBy(items, CollectionOf, CostWithoutMean)

NoItems == [via |-> "none", items |-> <<>>]
NoAggregates == [done |-> FALSE]

MappingInit ==
    /\ sourceRows \in SourceLists
    /\ constructionItems = NoItems
    /\ aggregates = NoAggregates

MappingFrame ==
    UNCHANGED <<storeVars, viewVars, queryVars, mapperVars, parserVars,
                loaderVars, clientVars, tableVars, searchVars>>

\* the table rows of the source rows
MapBatch ==
    /\ constructionItems' =
           [via |-> "mapBatchToConstructionItems",
            items |-> mapBatchToConstructionItems(sourceRows)]
    /\ UNCHANGED <<sourceRows, aggregates>>
    /\ MappingFrame

\* a table row made from its input
CreateItem(input) ==
    /\ constructionItems' =
           [via |-> "createConstructionItem",
            items |-> <<createConstructionItem(input)>>]
    /\ UNCHANGED <<sourceRows, aggregates>>
    /\ MappingFrame

\* the dashboard's rows of the API items of a region
MapApiItems(region) ==
    /\ constructionItems' =
           [via |-> "displayItems",
            items |-> [n \in 1..Len(RowsOf(region)) |->
                         DisplayItem(RowsOf(region)[n])]]
    /\ UNCHANGED <<sourceRows, aggregates>>
    /\ MappingFrame

\* the summaries of the source rows, every category kept (topN)
Aggregate(topN) ==
    /\ aggregates' =
           [done |-> TRUE, topN |-> topN,
            byCategory |-> aggregateByCategory(sourceRows, topN),
            byDepartment |-> aggregateByDepartment(sourceRows),
            byCollection |-> aggregateByCollection(sourceRows),
            totalCost |-> calculateTotalCost(sourceRows)]
    /\ UNCHANGED <<sourceRows, constructionItems>>
    /\ MappingFrame

MappingNext ==
    \/ MapBatch
    \/ \E input \in ItemInputs : CreateItem(input)
    \/ \E region \in RegionCodes : MapApiItems(region)
    \/ \E topN \in {1, 10} : Aggregate(topN)

(***************************************************************************)
(* DataTable (DataTable.tsx): the focused row, the selected row ids, the   *)
(* row window of the virtualizer and the two paddings.  The rows are the   *)
(* data prop in table order; the virtualizer is @tanstack/react-virtual    *)
(* with a fixed estimateSize, so row i spans i * rowHeight up to           *)
(* (i + 1) * rowHeight.  Heights and offsets are whole numbers.            *)
(***************************************************************************)
MaxTableRows == 3

\* the source rows behind the table's data: one with a rate code, one without
TableSourceRows ==
    {row \in SourceRows :
        /\ row.rate_code \in {"", "R1"}
        /\ row.resource_cost = 7
        /\ row.category_type = "x"}

TableData ==
    {mapBatchToConstructionItems(list) :
        list \in SeqsUpTo(TableSourceRows, MaxTableRows)}

\* the props rowHeight, overscan and enableSelection
RowHeights == {1, 2}
TableProps == [rowHeight : RowHeights, overscan : {0, 1}, enableSelection : BOOLEAN]

\* the height of the scroll container
OuterSizes == {1, 3}

Keys == {"ArrowDown", "ArrowUp", "Enter", "Home", "End", "Escape"}

\* table.getRowModel().rows.length
rowsLength == Len(tableData)

\* virtualizer.getTotalSize()
totalSize == rowsLength * tableProps.rowHeight

\* the measurement of row index (from 0)
VirtualItem(index) ==
    [index |-> index, start |-> index * tableProps.rowHeight,
     end |-> (index + 1) * tableProps.rowHeight, size |-> tableProps.rowHeight]

Minimum(S) == CHOOSE x \in S : \A y \in S : x <= y
Maximum(S) == CHOOSE x \in S : \A y \in S : x >= y

\* the scroll positions a container of the longest table can take
ScrollOffsets == 0..(MaxTableRows * Maximum(RowHeights))

\* findNearestBinarySearch: the last row that starts at or before the offset
startIndex ==
    Maximum({0} \cup {i \in 0..(rowsLength - 1) : VirtualItem(i).start <= scrollOffset})

\* calculateRange: from startIndex on, while the row ends before the lower
\* edge of the viewport and is not the last one
endIndex ==
    Minimum({e \in startIndex..(rowsLength - 1) :
                \/ e = rowsLength - 1
                \/ VirtualItem(e).end >= scrollOffset + outerSize})

\* virtualizer.getVirtualItems(): the range widened by overscan on both
\* sides and cut to the rows there are; nothing when there is no row
virtualRows ==
    IF rowsLength = 0 THEN <<>>
    ELSE LET first == Maximum({startIndex - tableProps.overscan, 0})
             last == Minimum({endIndex + tableProps.overscan, rowsLength - 1})
         IN  [n \in 1..(last - first + 1) |-> VirtualItem(first + n - 1)]

paddingTop == IF Len(virtualRows) > 0 THEN virtualRows[1].start ELSE 0

paddingBottomFromStart ==
    IF Len(virtualRows) > 0
    THEN totalSize - virtualRows[Len(virtualRows)].start
    ELSE 0

paddingBottom ==
    IF Len(virtualRows) > 0
    THEN totalSize - virtualRows[Len(virtualRows)].end
    ELSE 0

\* the height of the rendered rows
RenderedHeight == SumOver(virtualRows, LAMBDA item : item.size)

\* the row indexes on screen
RenderedIndexes == {virtualRows[n].index : n \in 1..Len(virtualRows)}

\* scrollHeight - clientHeight
MaxOffset(length) == Maximum({length * tableProps.rowHeight - outerSize, 0})

\* virtualizer.scrollToIndex(index, {align: "auto"}) over length rows, from
\* the offset given: the index is cut to the rows there are; the row is
\* aligned to the lower edge when it ends at or below it, to the upper edge
\* when it starts at or above it, and the offset stays otherwise
scrollToIndex(index, length, offset) ==
    IF length = 0 THEN offset
    ELSE LET i == Maximum({0, Minimum({index, length - 1})})
             start == i * tableProps.rowHeight
             end == (i + 1) * tableProps.rowHeight
             toOffset == IF end >= offset + outerSize THEN end - outerSize
                         ELSE IF start <= offset THEN start
                         ELSE offset
         IN  Maximum({Minimum({MaxOffset(length), toOffset}), 0})

\* the effect on focusedRowIndex: the focused row is scrolled into view
AfterFocus(previous, next, offset) ==
    IF next # previous /\ next >= 0
    THEN scrollToIndex(next, rowsLength, offset)
    ELSE offset

\* the updater of handleRowClick
Toggle(ids, id) == IF id \in ids THEN ids \ {id} ELSE ids \cup {id}

\* isSelected of the row at index (from 0)
isSelected(index) == tableData[index + 1].id \in selectedRowIds

TableInit ==
    /\ tableData \in TableData
    /\ tableProps \in TableProps
    /\ focusedRowIndex = 0 - 1
    /\ selectedRowIds = {}
    /\ scrollOffset = 0
    /\ outerSize \in OuterSizes

TableFrame ==
    UNCHANGED <<storeVars, viewVars, queryVars, mapperVars, parserVars,
                loaderVars, clientVars, mappingVars, searchVars>>

\* handleKeyDown, and the effect that follows a change of focusedRowIndex
KeyDown(key) ==
    /\ IF rowsLength = 0
       THEN UNCHANGED <<focusedRowIndex, selectedRowIds, scrollOffset>>
       ELSE LET next ==
                    CASE key = "ArrowDown" ->
                             Minimum({focusedRowIndex + 1, rowsLength - 1})
                      [] key = "ArrowUp" -> Maximum({focusedRowIndex - 1, 0})
                      [] key = "Home" -> 0
                      [] key = "End" -> rowsLength - 1
                      [] key = "Escape" -> 0 - 1
                      [] OTHER -> focusedRowIndex
                scrolled ==
                    CASE key = "Home" -> scrollToIndex(0, rowsLength, scrollOffset)
                      [] key = "End" ->
                             scrollToIndex(rowsLength - 1, rowsLength, scrollOffset)
                      [] OTHER -> scrollOffset
            IN  /\ focusedRowIndex' = next
                /\ scrollOffset' = AfterFocus(focusedRowIndex, next, scrolled)
                /\ selectedRowIds' =
                       CASE key = "Escape" -> {}
                         [] /\ key = "Enter"
                            /\ focusedRowIndex >= 0
                            /\ focusedRowIndex < rowsLength
                            /\ tableProps.enableSelection ->
                                Toggle(selectedRowIds, tableData[focusedRowIndex + 1].id)
                         [] OTHER -> selectedRowIds
    /\ UNCHANGED <<tableData, tableProps, outerSize>>
    /\ TableFrame

\* a row on screen takes the focus: onFocus(index)
RowFocus(index) ==
    /\ index \in RenderedIndexes
    /\ focusedRowIndex' = index
    /\ scrollOffset' = AfterFocus(focusedRowIndex, index, scrollOffset)

    /\ UNCHANGED <<tableData, tableProps, selectedRowIds, outerSize>>
    /\ TableFrame

\* a click on a row on screen: the row takes the focus, then handleRowClick
RowClick(index) ==
    /\ index \in RenderedIndexes
    /\ focusedRowIndex' = index
    /\ scrollOffset' = AfterFocus(focusedRowIndex, index, scrollOffset)
    /\ selectedRowIds' =
           IF tableProps.enableSelection
           THEN Toggle(selectedRowIds, tableData[index + 1].id)
           ELSE selectedRowIds

    /\ UNCHANGED <<tableData, tableProps, outerSize>>
    /\ TableFrame

\* the data prop changes (another filter, another page): the browser keeps
\* the scroll position inside the new scroll height, the table keeps its
\* focus and its selection
SetData(list) ==
    /\ list # tableData
    /\ tableData' = list
    /\ scrollOffset' = Minimum({scrollOffset, MaxOffset(Len(list))})

    /\ UNCHANGED <<tableProps, focusedRowIndex, selectedRowIds, outerSize>>
    /\ TableFrame

\* the user scrolls the container
Scroll(offset) ==
    /\ offset <= MaxOffset(rowsLength)
    /\ offset # scrollOffset
    /\ scrollOffset' = offset

    /\ UNCHANGED <<tableData, tableProps, focusedRowIndex, selectedRowIds, outerSize>>
    /\ TableFrame

TableNext ==
    \/ \E key \in Keys : KeyDown(key)
    \/ \E index \in 0..(MaxTableRows - 1) : RowFocus(index)
    \/ \E index \in 0..(MaxTableRows - 1) : RowClick(index)
    \/ \E list \in TableData : SetData(list)
    \/ \E offset \in ScrollOffsets : Scroll(offset)

(***************************************************************************)
(* SearchInput (DataViewDemo.tsx) with debounce (utils.ts): the text in    *)
(* the box, the timer of the debounced setGlobalSearch, and the clear      *)
(* button.  The timer runs its callback at some later time, or is replaced *)
(* by the next keystroke.                                                  *)
(***************************************************************************)
MaxSearchLen == 2

\* the texts the box can hold: "a" and "b" in any order
SearchTexts == SeqsUpTo({1, 2}, MaxSearchLen)

NoTimeout == [pending |-> FALSE]
Timeout(args) == [pending |-> TRUE, args |-> args]

SearchInit ==
    /\ localValue = filters.globalSearch
    /\ timeoutId = NoTimeout
    /\ sinceClear = FALSE

SearchFrame ==
    UNCHANGED <<viewVars, queryVars, mapperVars, parserVars, loaderVars,
                clientVars, mappingVars, tableVars>>

\* handleChange: setLocalValue(value), debouncedSetSearch(value); the
\* debounced function clears the timer that is pending and sets a new one
HandleChange(value) ==
    /\ value # localValue
    /\ localValue' = value
    /\ timeoutId' = Timeout(value)
    /\ sinceClear' = FALSE
    /\ UNCHANGED storeVars
    /\ SearchFrame

\* the timer runs: func(...args), that is setGlobalSearch(value).  The
\* debounced function never resets timeoutId; a timer that has run is
\* cleared to no effect, which the model records as no timer
TimeoutFires ==
    /\ timeoutId.pending
    /\ setGlobalSearch(timeoutId.args)
    /\ timeoutId' = NoTimeout
    /\ UNCHANGED <<localValue, sinceClear>>
    /\ SearchFrame

\* handleClear, of the button shown while the box holds text:
\* setLocalValue(""), clearFilters()
HandleClear ==
    /\ localValue # <<>>
    /\ localValue' = <<>>
    /\ clearFilters
    /\ sinceClear' = TRUE
    /\ UNCHANGED timeoutId
    /\ SearchFrame

\* the box, and the filter conditions that other controls add to the store
SearchNext ==
    \/ \E value \in SearchTexts : HandleChange(value)
    \/ TimeoutFires
    \/ HandleClear
    \/ \E condition \in CondUniverse : AddFilterCondition(condition)

(***************************************************************************)
(* GET /api/workitems with page and limit: the route cuts page to 1 and    *)
(* more and limit to 1..500, then queryWorkItems slices the sorted rows.   *)
(* A parameter is a whole number here, or NullNumber when it is absent.    *)
(***************************************************************************)
MaxPageRows == 3
MaxPage == 4

PageRowLists == SeqsUpTo(RowUniverse, MaxPageRows)

\* Math.max(1, parseInt(searchParams.get('page') || '1', 10))
PageParam(raw) == IF raw = NullNumber \/ raw < 1 THEN 1 ELSE raw

\* Math.min(500, Math.max(1, parseInt(searchParams.get('limit') || '100', 10)))
LimitParam(raw) ==
    IF raw = NullNumber THEN 100
    ELSE IF raw < 1 THEN 1
    ELSE IF raw > 500 THEN 500
    ELSE raw

\* the options the route passes on
RouteOptions(page, limit, sortOrder) ==
    [NoOptions EXCEPT !.page = PageParam(page), !.limit = LimitParam(limit),
                      !.sortOrder = sortOrder]

PagesInit == qRows \in PageRowLists /\ qOptions = NoOptions /\ qResult = NoResult

\* one request for a page
RequestPage(page, limit, sortOrder) ==
    /\ ~qResult.done
    /\ qOptions' = RouteOptions(page, limit, sortOrder)
    /\ \E result \in {QueryWorkItems(qRows, RouteOptions(page, limit, sortOrder))} :
           qResult' = result
    /\ UNCHANGED <<qRows, storeVars, viewVars, mapperVars, extVars>>

PagesNext ==
    \E page \in {NullNumber} \cup 0..MaxPage, limit \in {NullNumber} \cup 0..MaxPageRows,
       sortOrder \in {Undef, "desc"} :
        RequestPage(page, limit, sortOrder)

(***************************************************************************)
(* Specifications.  Store, view, server query and mapper are separate      *)
(* programs over separate data; each specification runs one of them and    *)
(* leaves the others in their idle state.                                  *)
(***************************************************************************)
ViewIdle == data = <<>>
QueryIdle == qRows = <<>> /\ qOptions = NoOptions /\ qResult = NoResult
MapperIdle == mItems = <<>> /\ mFilters = NoFilters /\ mResult = NoResult
ParserIdle ==
    /\ inputValue = <<>> /\ internalFilters = <<>> /\ filterIdCounter = 0
    /\ parsed = NoParse
LoaderIdle ==
    /\ now = 0 /\ files = {} /\ dataCache = <<>> /\ queryCache = <<>>
    /\ calls = <<>> /\ outcome = <<>>
ClientIdle ==
    /\ selectedRegion = "" /\ queries = <<>> /\ fetches = {} /\ shown = ""
MappingIdle ==
    sourceRows = <<>> /\ constructionItems = NoItems /\ aggregates = NoAggregates
TableIdle ==
    /\ tableData = <<>> /\ tableProps = <<>> /\ focusedRowIndex = 0 - 1
    /\ selectedRowIds = {} /\ scrollOffset = 0 /\ outerSize = 0
SearchIdle == localValue = <<>> /\ timeoutId = NoTimeout /\ sinceClear = FALSE
MoreIdle == MappingIdle /\ TableIdle /\ SearchIdle
ExtIdle == ParserIdle /\ LoaderIdle /\ ClientIdle /\ MoreIdle

InitStore == StoreInit /\ ViewIdle /\ QueryIdle /\ MapperIdle /\ ExtIdle

SpecStore == InitStore /\ [][StoreNext]_vars

InitView == StoreInit /\ data \in DataSets /\ QueryIdle /\ MapperIdle /\ ExtIdle

ViewNext ==
    \/ \E mode \in ViewModes : SetViewMode(mode)
    \/ \E s \in SearchStrings : SetGlobalSearch(s)
    \/ \E c \in CondUniverse : AddFilterCondition(c)
    \/ \E i \in 0..MaxConds : RemoveFilterCondition(i)
    \/ ClearFilters
    \/ \E s \in SortingStates : SetSorting(s)

SpecView == InitView /\ [][ViewNext]_vars

InitQuery == StoreInit /\ ViewIdle /\ QueryInit /\ MapperIdle /\ ExtIdle

SpecQuery == InitQuery /\ [][QueryNext]_vars

InitMapper == StoreInit /\ ViewIdle /\ QueryIdle /\ MapperInit /\ ExtIdle

SpecMapper == InitMapper /\ [][MapperNext]_vars

\* what an earlier session, another version of the application or the user may
\* have left under the storage key
StoredBlobs ==
    {MissingBlob, CorruptBlob,
     Blob("json", {}, initialState),
     Blob("json", {"visibleColumns"}, [initialState EXCEPT !.visibleColumns = NullColumns]),
     Blob("json", {"visibleColumns"}, [initialState EXCEPT !.visibleColumns = <<>>]),
     Blob("json", PersistKeys, [initialState EXCEPT !.viewMode = "grid"])}

\* the store as created and hydrated by a page load over any stored blob
InitPersist ==
    /\ \E b \in StoredBlobs :
          LET s == Rehydrate(b)
          IN /\ viewMode = s.viewMode
             /\ filters = s.filters
             /\ visibleColumns = s.visibleColumns
             /\ sorting = s.sorting
             /\ columnVisibility = s.columnVisibility
             /\ columnSizing = s.columnSizing
             /\ lastOp = [name |-> "rehydrate", col |-> BlobClass(b)]
             /\ storage \in (IF b.kind = "corrupt" THEN {b} ELSE {b, Partialize(s)})
    /\ threw = FALSE
    /\ ViewIdle /\ QueryIdle /\ MapperIdle /\ ExtIdle

SpecPersist == InitPersist /\ [][StoreNext]_vars

\* one data set run through one of the three pipelines per behaviour
StoreIdle == lastOp = NoOp

InitPipeline ==
    /\ StoreInit
    /\ \/ data \in DataSets /\ QueryIdle /\ MapperIdle
       \/ ViewIdle /\ QueryInit /\ MapperIdle
       \/ ViewIdle /\ QueryIdle /\ MapperInit
    /\ ExtIdle

TableStep == QueryIdle /\ MapperIdle /\ ViewNext
QueryStep == StoreIdle /\ ViewIdle /\ MapperIdle /\ QueryNext
MapperStep == StoreIdle /\ ViewIdle /\ QueryIdle /\ MapperNext

PipelineNext == TableStep \/ QueryStep \/ MapperStep

SpecPipeline == InitPipeline /\ [][PipelineNext]_vars

InitParser ==
    /\ StoreInit /\ ViewIdle /\ QueryIdle /\ MapperIdle /\ ParserInit
    /\ LoaderIdle /\ ClientIdle /\ MoreIdle

SpecParser == InitParser /\ [][ParserNext]_vars

InitLoader ==
    /\ StoreInit /\ ViewIdle /\ QueryIdle /\ MapperIdle /\ ParserIdle
    /\ LoaderInit /\ ClientIdle /\ MoreIdle

SpecLoader == InitLoader /\ [][LoaderNext]_vars

InitClient ==
    /\ StoreInit /\ ViewIdle /\ QueryIdle /\ MapperIdle /\ ParserIdle
    /\ LoaderIdle /\ ClientInit /\ MoreIdle

SpecClient == InitClient /\ [][ClientNext]_vars

BaseIdle ==
    /\ StoreInit /\ ViewIdle /\ QueryIdle /\ MapperIdle /\ ParserIdle
    /\ LoaderIdle /\ ClientIdle

InitMapping == BaseIdle /\ MappingInit /\ TableIdle /\ SearchIdle

SpecMapping == InitMapping /\ [][MappingNext]_vars

InitTable == BaseIdle /\ MappingIdle /\ TableInit /\ SearchIdle

SpecTable == InitTable /\ [][TableNext]_vars

InitSearch == BaseIdle /\ MappingIdle /\ TableIdle /\ SearchInit

SpecSearch == InitSearch /\ [][SearchNext]_vars

InitPages ==
    /\ StoreInit /\ ViewIdle /\ PagesInit /\ MapperIdle /\ ExtIdle

SpecPages == InitPages /\ [][PagesNext]_vars

(***************************************************************************)
(* Claims about the table store (checked under SpecStore)                  *)
(***************************************************************************)
Range(list) == {list[i] : i \in 1..Len(list)}

\* C8: whatever list the store holds (also one put there by setVisibleColumns),
\* a toggleColumn call never leaves visibleColumns empty.
C8_ToggleNeverEmpties ==
    lastOp.name = "toggleColumn" => visibleColumns # <<>>

\* C9: in every state reachable through the store's actions the visible
\* column list is non-empty.
C9_VisibleNonEmpty == visibleColumns # <<>>

\* C10: toggleColumn(c) called while c is the only visible column changes no
\* field of the store.
C10_LastColumnToggleNoOp ==
    [][(lastOp'.name = "toggleColumn" /\ Range(visibleColumns) = {lastOp'.col})
         => UNCHANGED <<viewMode, filters, visibleColumns, sorting,
                        columnVisibility, columnSizing>>]_vars

(***************************************************************************)
(* Claims about the table view (checked under SpecView)                    *)
(***************************************************************************)
\* a structured condition evaluated on one item (the operators of
\* FilterOperator that compare numbers)
CondHolds(cond, item) ==
    LET v == item[cond.column]
    IN CASE cond.operator = "gt" -> v > cond.value
         [] cond.operator = "gte" -> v >= cond.value
         [] cond.operator = "lt" -> v < cond.value
         [] cond.operator = "lte" -> v <= cond.value
         [] OTHER -> v = cond.value

\* C1: every displayed row satisfies every condition held in
\* filters.conditions.
C1_DisplayedRowsSatisfyConditions ==
    \A k \in 1..Len(DisplayedRows) :
        \A c \in 1..Len(filters.conditions) :
            CondHolds(filters.conditions[c], data[DisplayedRows[k]])

\* an item matches the search text s on its description, identifier or
\* category, case-insensitively
MatchesSearch(item, s) ==
    \/ Includes(ToLowerCase(item.descripcion), ToLowerCase(s))
    \/ Includes(ToLowerCase(item.id), ToLowerCase(s))
    \/ (item.categoria # Null /\ Includes(ToLowerCase(item.categoria), ToLowerCase(s)))

\* C2: with a non-empty search text the displayed rows are exactly the rows
\* matching on description, identifier or category; with an empty one all
\* rows are displayed.
C2_GlobalSearchExact ==
    Range(DisplayedRows) =
        IF filters.globalSearch = <<>> THEN 1..Len(data)
        ELSE {p \in 1..Len(data) : MatchesSearch(data[p], filters.globalSearch)}

(***************************************************************************)
(* Claims about the filters and the sort (checked under SpecPipeline)      *)
(***************************************************************************)
\* positions in strictly increasing order: the original relative order
Increasing(list) == \A i, j \in 1..Len(list) : i < j => list[i] < list[j]

\* the options that supply one criterion of o alone
QueryCriteria == {"search", "category", "minPrice", "maxPrice"}
OnlyCriterion(o, c) == [NoOptions EXCEPT ![c] = o[c]]

FilterCriteria ==
    {"categoryTypes", "collectionCodes", "departmentCodes", "priceMin", "priceMax",
     "isMaterial", "isLabor", "isMachine", "searchQuery"}
OnlyFilter(f, c) ==
    IF c = "priceMin"
    THEN [NoFilters EXCEPT !.priceRange =
             [given |-> f.priceRange.given, min |-> f.priceRange.min, max |-> NullNumber]]
    ELSE IF c = "priceMax"
    THEN [NoFilters EXCEPT !.priceRange =
             [given |-> f.priceRange.given, min |-> NullNumber, max |-> f.priceRange.max]]
    ELSE [NoFilters EXCEPT ![c] = f[c]]

\* C3: the filters keep exactly the rows that every supplied criterion, applied
\* alone, keeps, in their original order; with no criterion all rows are kept.
C3_FiltersAreConjunction ==
    /\ qResult.done =>
         /\ Range(qResult.filteredRows) =
              {p \in 1..Len(qRows) : \A c \in QueryCriteria :
                  p \in Range(QueryFilterStage(qRows, WithDefaults(OnlyCriterion(qOptions, c))))}
         /\ Increasing(qResult.filteredRows)
         /\ QueryFilterStage(qRows, WithDefaults(NoOptions)) = Positions(qRows)
    /\ mResult.done =>
         /\ Range(mResult.kept) =
              {p \in 1..Len(mItems) : \A c \in FilterCriteria :
                  p \in Range(FilterWorkItems(mItems, OnlyFilter(mFilters, c)))}
         /\ Increasing(mResult.kept)
         /\ FilterWorkItems(mItems, NoFilters) = Positions(mItems)

\* a row is rejected by one supplied criterion while another row passes two
C3_Witness ==
    /\ qResult.done
    /\ qOptions.search # Null /\ qOptions.maxPrice # NullNumber
    /\ Len(qRows) = 2 /\ Len(qResult.filteredRows) = 1
    /\ 2 \in Range(QueryFilterStage(qRows, WithDefaults(OnlyCriterion(qOptions, "search"))))
    /\ qResult.filteredRows = <<1>>

\* the price of a DDC item, null when both price fields are null
HasPrice(item) ==
    item.price_est_median # NullNumber \/ item.resource_price_per_unit # NullNumber

\* C4: a row whose price is null is excluded by any minimum-price and any
\* maximum-price filter.
C4_NullPriceFailsComparisons ==
    /\ (qResult.done /\ (qOptions.minPrice # NullNumber \/ qOptions.maxPrice # NullNumber))
         => \A k \in 1..Len(qResult.filteredRows) :
                qRows[qResult.filteredRows[k]].resource_price_per_unit # NullNumber
    /\ (mResult.done /\ mFilters.priceRange.given
          /\ (mFilters.priceRange.min # NullNumber \/ mFilters.priceRange.max # NullNumber))
         => \A k \in 1..Len(mResult.kept) : HasPrice(mItems[mResult.kept[k]])

\* min <= price <= max for the bounds that are given
WithinBounds(price, min, max) ==
    /\ min # NullNumber => price >= min
    /\ max # NullNumber => price <= max

\* C5: a price range keeps a priced row exactly when its price lies in
\* [min, max], both ends included (among the rows the other criteria keep).
C5_PriceRangeInclusive ==
    /\ qResult.done =>
         \A p \in Range(QueryFilterStage(qRows,
                    WithDefaults([qOptions EXCEPT !.minPrice = NullNumber,
                                                  !.maxPrice = NullNumber]))) :
            qRows[p].resource_price_per_unit # NullNumber =>
                (p \in Range(qResult.filteredRows)
                   <=> WithinBounds(qRows[p].resource_price_per_unit,
                                    qOptions.minPrice, qOptions.maxPrice))
    /\ (mResult.done /\ mFilters.priceRange.given) =>
         \A p \in Range(FilterWorkItems(mItems, [mFilters EXCEPT !.priceRange = NoRange])) :
            HasPrice(mItems[p]) =>
                (p \in Range(mResult.kept)
                   <=> WithinBounds(ItemPrice(mItems[p]),
                                    mFilters.priceRange.min, mFilters.priceRange.max))

\* a row priced exactly at min = max is kept and a row priced above is dropped
C5_Witness ==
    /\ qResult.done
    /\ qOptions.minPrice = 100 /\ qOptions.maxPrice = 100
    /\ qOptions.search = Null /\ qOptions.category = Null
    /\ Len(qRows) = 2
    /\ qRows[1].resource_price_per_unit = 100
    /\ qRows[2].resource_price_per_unit = 150
    /\ qResult.filteredRows = <<1>>

\* the sort key of a row, and the order the claim speaks of: numbers as
\* numbers, anything else as text
KeyCompare(a, b, column) ==
    IF IsNumber(a, column) /\ IsNumber(b, column)
    THEN a[column] - b[column]
    ELSE localeCompare(safeString(a, column), safeString(b, column))

\* list is a rearrangement of base, non-decreasing in the key of `column` in the
\* direction `order`, rows of equal key keeping their order in base
SortedStably(rows, list, base, column, order) ==
    /\ Len(list) = Len(base)
    /\ Range(list) = Range(base)
    /\ \A i, j \in 1..Len(list) : i < j =>
          LET c == KeyCompare(rows[list[i]], rows[list[j]], column)
          IN /\ IF order = "asc" THEN c <= 0 ELSE c >= 0
             /\ c = 0 => list[i] < list[j]

\* C6 as stated: with no sort specified the result is the filtered list itself.
C6_NoSortKeepsSourceOrder ==
    /\ (qResult.done /\ qOptions.sortBy = Undef /\ qOptions.sortOrder = Undef)
          => qResult.sortedRows = qResult.filteredRows
    /\ sorting = <<>> => Increasing(DisplayedRows)

\* C6 as amended: the table with an empty sort shows the filtered rows in source
\* order; a server query with no sortBy/sortOrder returns the filtered rows
\* sorted ascending by rate_code, rows of equal rate_code in source order.
C6_DefaultSortIsRateCode ==
    /\ (qResult.done /\ qOptions.sortBy = Undef /\ qOptions.sortOrder = Undef)
          => SortedStably(qRows, qResult.sortedRows, qResult.filteredRows,
                          "rate_code", "asc")
    /\ sorting = <<>> => Increasing(DisplayedRows)

\* a query without sort options whose result is not in source order
C6_Witness ==
    /\ qResult.done /\ qOptions.sortBy = Undef /\ qOptions.sortOrder = Undef
    /\ qResult.filteredRows = <<1, 2>>
    /\ qResult.sortedRows = <<2, 1>>

\* C7: the sort stage returns a rearrangement of the filtered rows that is
\* monotone in the key of the sort column (the requested column when it is a
\* sortable one, else rate_code) and keeps rows of equal key in their order.
C7_SortStableAndOrdered ==
    qResult.done =>
        SortedStably(qRows, qResult.sortedRows, qResult.filteredRows,
                     safeSort(WithDefaults(qOptions)), WithDefaults(qOptions).sortOrder)

\* two different rows of equal price sorted by price keep their order
C7_Witness ==
    /\ qResult.done
    /\ qOptions.sortBy = "resource_price_per_unit" /\ qOptions.sortOrder = "desc"
    /\ qResult.filteredRows = <<1, 2>>
    /\ qRows[1] # qRows[2]
    /\ qRows[1].resource_price_per_unit = 100 /\ qRows[2].resource_price_per_unit = 100
    /\ qResult.sortedRows = <<1, 2>>

(***************************************************************************)
(* Claims about persistence (checked under SpecStore and SpecPersist)      *)
(***************************************************************************)
\* C11 as stated: a reload keeps visibleColumns, sorting, columnSizing and
\* viewMode, and every other field has its default value afterwards.
C11_OnlyFourFieldsPersist ==
    [][lastOp'.name = "rehydrate" =>
          /\ visibleColumns' = visibleColumns /\ sorting' = sorting
          /\ columnSizing' = columnSizing /\ viewMode' = viewMode
          /\ filters' = DEFAULT_FILTERS
          /\ columnVisibility' = EmptyObject]_vars

\* C11 as amended: a reload keeps visibleColumns, sorting, columnSizing,
\* viewMode and columnVisibility; filters has its default value afterwards.
C11_FiveFieldsPersist ==
    [][lastOp'.name = "rehydrate" =>
          /\ visibleColumns' = visibleColumns /\ sorting' = sorting
          /\ columnSizing' = columnSizing /\ viewMode' = viewMode
          /\ columnVisibility' = columnVisibility
          /\ filters' = DEFAULT_FILTERS]_vars

\* a reload that restored a non-default value of each persisted field
C11_Witness ==
    /\ lastOp.name = "rehydrate"
    /\ viewMode = "grid" /\ visibleColumns = <<"categoria", "id">>
    /\ sorting # <<>> /\ columnSizing # EmptyObject /\ columnVisibility # EmptyObject
    /\ filters = DEFAULT_FILTERS

\* C12: a page load over a missing, unparseable or wrongly shaped blob leaves
\* the store in its default state, and no later action throws.
C12_BadBlobFallsBackToDefaults ==
    /\ (lastOp.name = "rehydrate" /\ lastOp.col \in {"missing", "corrupt", "malformed"})
          => StoreState = initialState
    /\ ~threw

(***************************************************************************)
(* Claims about the natural-language filter (checked under SpecParser)     *)
(***************************************************************************)
\* the segments of the input of the submit made
ParsedSegments == Segments(parsed.input)

\* C13: a segment that contains >=, <= or != is read as gte, lte or neq (the
\* first of the three whose pattern it matches), never as gt, lt, eq or contains.
C13_TwoCharOperatorFirst ==
    parsed.done =>
        \A k \in 1..Len(ParsedSegments) :
            LET segment == ParsedSegments[k]
                lower == TextLower(segment)
                operator == detectOperator(segment)
                has(t) == Includes(segment, t)
            IN /\ has(<<">", "=">>) => operator = "gte"
               /\ (has(<<"<", "=">>) /\ ~TestAny(lower, operatorPatterns[1].literals))
                     => operator = "lte"
               /\ (has(<<"!", "=">>) /\ ~TestAny(lower, operatorPatterns[1].literals)
                                      /\ ~TestAny(lower, operatorPatterns[2].literals))
                     => operator = "neq"
               /\ (has(<<">", "=">>) \/ has(<<"<", "=">>) \/ has(<<"!", "=">>))
                     => operator \in {"gte", "lte", "neq"}

\* the submit of "cost >= 100" and of a segment with != produced gte and neq
C13_Witness ==
    /\ parsed.done
    /\ parsed.input = <<"c", "o", "s", "t", " ", ">", "=", " ", "1", "0", "0", ",", " ", "c", "o", "s", "t", " ", "!", "=", " ", "1", "0", "0">>
    /\ Len(parsed.result.filters) = 2
    /\ parsed.result.filters[1].operator = "gte"
    /\ parsed.result.filters[2].operator = "neq"

\* the ways the range 100..500 is written
RangeForms ==
    {<<"1", "0", "0", "-", "5", "0", "0">>, <<"1", "0", "0", " ", "t", "o", " ", "5", "0", "0">>, <<"1", "0", "0", " ", "a", " ", "5", "0", "0">>}

HasRange(segment) == \E form \in RangeForms : Includes(segment, form)
HasDigit(segment) == \E i \in 1..Len(segment) : IsDigit(segment[i])

\* C14: a segment with a range N-M, N to M or N a M yields the pair [N, M]; a
\* single number only when there is no range, a string only when no number.
C14_RangeBeforeNumber ==
    parsed.done =>
        \A k \in 1..Len(ParsedSegments) :
            LET segment == ParsedSegments[k]
                value == extractValue(segment)
            IN /\ HasRange(segment) => value = RangeValue(100, 500)
               /\ value.kind = "range" => HasRange(segment)
               /\ value.kind = "number" <=> (HasDigit(segment) /\ ~HasRange(segment))
               /\ value.kind \in {"string", "null"} <=> ~HasDigit(segment)

\* the submit of "area 100-500" produced a filter with the value [100, 500]
C14_Witness ==
    /\ parsed.done
    /\ parsed.input = <<"a", "r", "e", "a", " ", "1", "0", "0", "-", "5", "0", "0">>
    /\ Len(parsed.result.filters) = 1
    /\ parsed.result.filters[1].field = "area"
    /\ parsed.result.filters[1].value = RangeValue(100, 500)

\* field, operator, value and unit of a parsed filter
Essence(f) == [field |-> f.field, operator |-> f.operator, value |-> f.value, unit |-> f.unit]

\* C15: "materiales > 500(euro sign), area < 50m2" parses into the two filters
\* material gt 500 EUR and area lt 50 sqm, in this order, nothing unrecognized.
C15_ExampleParse ==
    (parsed.done /\ parsed.input = ExampleQuery) =>
        /\ Len(parsed.result.filters) = 2
        /\ Essence(parsed.result.filters[1]) =
              [field |-> "material", operator |-> "gt", value |-> NumberValue(500),
               unit |-> "EUR"]
        /\ Essence(parsed.result.filters[2]) =
              [field |-> "area", operator |-> "lt", value |-> NumberValue(50),
               unit |-> "sqm"]
        /\ parsed.result.unrecognized = <<>>

\* the example input has been submitted
C15_Witness ==
    /\ parsed.done /\ parsed.input = ExampleQuery
    /\ parsed.result.success
    /\ inputValue = <<>>

\* a segment that resolves to a field and has a value
IsFilterSegment(segment) ==
    resolveField(segment) # "null" /\ extractValue(segment) # NullValue

\* C16: every non-empty segment is accounted for once: a filter if it has a
\* field and a value, else unrecognized if longer than 2 characters, else
\* dropped; and a submit appends all parsed filters when there is at least one.
C16_SegmentsAccountedOnce ==
    parsed.done =>
        LET result == parsed.result
            filterSegments == SelectSeq(ParsedSegments, IsFilterSegment)
        IN /\ [k \in 1..Len(result.filters) |-> result.filters[k].rawInput] = filterSegments
           /\ result.unrecognized =
                 SelectSeq(ParsedSegments, LAMBDA t : ~IsFilterSegment(t) /\ Len(t) > 2)
           /\ result.success <=> (filterSegments # <<>>)
           /\ internalFilters =
                 (IF filterSegments # <<>> THEN parsed.before \o result.filters
                                           ELSE parsed.before)

\* a submit with one valid and one unrecognized segment appended the valid one
\* to a list that already held a filter
C16_Witness ==
    /\ parsed.done
    /\ Len(parsed.result.filters) = 1 /\ Len(parsed.result.unrecognized) = 1
    /\ parsed.before = <<PriorFilter>>
    /\ internalFilters = <<PriorFilter>> \o parsed.result.filters

(***************************************************************************)
(* Claims about the server row store (checked under SpecLoader)            *)
(***************************************************************************)
StartsRead(i) == calls[i].pc = "idle" /\ calls'[i].pc = "reading"

\* Call j is reading the region's file and clearCache has not run since.
ReadingInWindow(j, region) ==
    /\ calls[j].pc = "reading"
    /\ calls[j].region = region
    /\ ~calls[j].cleared

\* C17: the row store loads once per region: a read of a region's file starts
\* only when no valid cached set exists for the region and no other read of
\* that file, begun since the cache was last cleared, is still in flight; so
\* at most one read happens within one time-to-live window.
C17_LoadsOncePerRegion ==
    [][\A i \in 1..MaxCalls :
          StartsRead(i) =>
              /\ ~DataCacheHit(calls'[i].region)
              /\ \A j \in 1..MaxCalls : ~ReadingInWindow(j, calls'[i].region)]_vars

\* Two calls read the same region's file at once, with no clearCache between.
C17_TwoReadsInOneWindow ==
    \E i, j \in 1..MaxCalls :
        /\ i # j
        /\ ReadingInWindow(i, calls[i].region)
        /\ ReadingInWindow(j, calls[i].region)

DataUnavailable == {"Parquet file not found", "ENOENT"}

\* How a failed call ends: an unrecognized key fails as an invalid region
\* before any file is touched, a recognized one as data unavailable, and the
\* failing step has added no entry to either cache.
FailureShape ==
    outcome.pc = "threw" =>
        /\ outcome.added = {}
        /\ IF outcome.region \in REGIONS
           THEN outcome.error \in DataUnavailable
           ELSE outcome.error = "Invalid region" /\ ~outcome.readFile

\* The call that failed last is made again by call slot i.
Retry(i) == outcome.pc = "threw" /\ Call(i, outcome.kind, outcome.region)

\* A retry goes through the load again: it starts a read, or fails at the
\* same tests again, or (for a recognized region only) returns a set that a
\* successful load has cached in the meantime.
RetryLoadsAgain(i) ==
    Retry(i) =>
        \/ calls'[i] = Reading(outcome.kind, outcome.region)
        \/ outcome'.pc = "threw" /\ ~outcome'.readFile
        \/ /\ outcome'.pc = "returned"
           /\ outcome.region \in REGIONS
           /\ outcome'.data.region = outcome.region
           /\ outcome'.data.loadedAt <= now

\* C19: a load for an unrecognized region key fails with an invalid-region
\* error without reading a file, a load whose file cannot be read fails with
\* a data-unavailable error, both are error values and not results, neither
\* adds an entry to the data cache or the query cache, and a retry of the
\* same request performs the load again.
C19_FailedLoadLeavesNoTrace ==
    [][FailureShape' /\ \A i \in 1..MaxCalls : RetryLoadsAgain(i)]_vars

\* A call failed because the file was missing; the file is back, nothing is
\* cached for the region and no call is running, so the retry reads the file.
C19_Witness ==
    /\ outcome.pc = "threw"
    /\ outcome.error = "Parquet file not found"
    /\ outcome.added = {}
    /\ outcome.region \in files
    /\ ~dataCache[outcome.region].has
    /\ \A i \in 1..MaxCalls : calls[i] = NoCall

(***************************************************************************)
(* Claims about the client work-item query (checked under SpecClient)      *)
(***************************************************************************)
\* The load of the region has resolved with the region's rows.
Resolved(region) ==
    /\ queries[region].status = "success"
    /\ queries[region].fetchStatus = "idle"

\* The rows of a region as the table shows them.
DisplayRows(region) ==
    [n \in 1..Len(RowsOf(region)) |-> DisplayItem(RowsOf(region)[n])]

\* The loads of r1 and of the selected region r2 have both resolved.
BothResolved(r1, r2) ==
    /\ r1 # r2
    /\ selectedRegion = r2
    /\ Resolved(r1)
    /\ Resolved(r2)
    /\ fetches = {}

\* C18: last request wins on a region switch: once the loads of the region
\* left (r1) and of the region selected now (r2) have both resolved, in
\* either order, the rows exposed for display are those of r2.
C18_LastRequestWins ==
    \A r1, r2 \in RegionCodes :
        BothResolved(r1, r2) => displayItems = DisplayRows(r2)

\* Both loads have resolved and the hook holds the response of the selected
\* region, yet the page shows the mock rows.
C18_Witness ==
    \E r1, r2 \in RegionCodes :
        /\ BothResolved(r1, r2)
        /\ workItemsData = RouteResponse(r2, TRUE).body
        /\ displayItems = MOCK_CONSTRUCTION_ITEMS

\* The query layer keeps the policy: the hook's data is never the response
\* of a region other than the selected one once the selected one resolved.
HookHoldsSelectedRegion ==
    Resolved(selectedRegion) =>
        /\ workItemsData = queries[selectedRegion].data
        /\ workItemsData.region = selectedRegion

\* C20: a request that fails because the server does not recognize the
\* region key is surfaced after the first failed attempt and is not retried:
\* once such a query has failed, it is in the error state with no fetch
\* running.
C20_InvalidRegionNotRetried ==
    \A region \in RegionCodes :
        (~isValidRegion(region) /\ queries[region].failureCount > 0) =>
            /\ queries[region].status = "error"
            /\ queries[region].fetchStatus = "idle"

\* The request for an unrecognized region has failed twice and is in flight
\* a third time.
C20_Witness ==
    \E region \in RegionCodes :
        /\ ~isValidRegion(region)
        /\ queries[region].failureCount = retry
        /\ region \in fetches

\* DataTable's render branches on the props the dashboard page passes:
\* data = displayItems, isLoading = isLoadingItems, error = itemsError.  The
\* page sets no search text, so the table's rows are its data.
TableState ==
    IF itemsError # "" THEN "error"
    ELSE IF isLoadingItems THEN "loading"
    ELSE IF Len(displayItems) = 0 THEN "empty"
    ELSE "rows"

\* The load of the selected region succeeded with zero rows.
SucceededEmpty ==
    /\ queries[selectedRegion].status = "success"
    /\ queries[selectedRegion].data.items = <<>>

\* C21: the table shows the error state for a failed load, the loading state
\* for a pending load, and the empty state (never rows, never the error
\* state) for a load that succeeded with zero rows.
C21_StatesDistinguishable ==
    /\ queries[selectedRegion].status = "error" => TableState = "error"
    /\ queries[selectedRegion].status = "pending" => TableState = "loading"
    /\ SucceededEmpty => TableState = "empty"

\* The load succeeded with zero rows and the table shows the mock rows.
C21_Witness ==
    /\ SucceededEmpty
    /\ queries[selectedRegion].fetchStatus = "idle"
    /\ TableState = "rows"
    /\ displayItems = MOCK_CONSTRUCTION_ITEMS

(***************************************************************************)
(* Claims about the data table.                                            *)
(***************************************************************************)
\* C22: in every reachable state of the table the focused row index is -1 or
\* the index of a row there is; when the row count drops below the focused
\* index the focus is brought back into range.
C22_FocusInRange ==
    \/ focusedRowIndex = 0 - 1
    \/ focusedRowIndex \in 0..(rowsLength - 1)

\* a row was focused, the data became shorter, and the focus still points
\* past the last row
C22_Witness ==
    /\ focusedRowIndex >= rowsLength
    /\ focusedRowIndex >= 0
    /\ rowsLength > 0

C26_UniqueIds ==
    \A i, j \in 1..rowsLength : tableData[i].id = tableData[j].id => i = j

\* two rows carry one id, and the selection of one of them selected both
C26_Witness ==
    /\ tableProps.enableSelection
    /\ \E i, j \in 0..(rowsLength - 1) :
           /\ i # j
           /\ tableData[i + 1].id = tableData[j + 1].id
           /\ focusedRowIndex = i
           /\ isSelected(i) /\ isSelected(j)

(***************************************************************************)
(* Claims about the row mapping and the summaries.                         *)
(***************************************************************************)
\* the first amount of a list that is not null, 0 when all are
FirstGiven(amounts) ==
    IF \A n \in 1..Len(amounts) : amounts[n] = NullNumber THEN 0
    ELSE amounts[CHOOSE n \in 1..Len(amounts) :
                    /\ amounts[n] # NullNumber
                    /\ \A k \in 1..(n - 1) : amounts[k] = NullNumber]

\* what the claim asks of the table row made from a source row
RowCosted(item, row) ==
    LET unit == FirstGiven(<<row.resource_price_per_unit, row.price_est_median,
                             row.price_est_mean>>)
        quantity == FirstGiven(<<row.resource_quantity, 1>>)
    IN  /\ item.costoUnitario = unit
        /\ item.cantidad = quantity
        /\ item.subtotal = IF row.resource_cost # NullNumber
                           THEN row.resource_cost
                           ELSE unit * quantity

ValueSum(summary) == Sum([n \in 1..Len(summary) |-> summary[n].value])
CountSum(summary) == Sum([n \in 1..Len(summary) |-> summary[n].count])

\* the categories of the source rows
CategoriesOf(list) == {CategoryOf(list[n]) : n \in 1..Len(list)}

\* C30: the sums of the values of aggregateByDepartment, of
\* aggregateByCollection and of aggregateByCategory (topN at least the number
\* of categories) each equal calculateTotalCost(rows), and the counts of each
\* summary add up to the number of rows.
C30_AggregatesAgree ==
    aggregates.done /\ aggregates.topN >= Cardinality(CategoriesOf(sourceRows)) =>
        /\ ValueSum(aggregates.byDepartment) = aggregates.totalCost
        /\ ValueSum(aggregates.byCollection) = aggregates.totalCost
        /\ ValueSum(aggregates.byCategory) = aggregates.totalCost
        /\ CountSum(aggregates.byDepartment) = Len(sourceRows)
        /\ CountSum(aggregates.byCollection) = Len(sourceRows)
        /\ CountSum(aggregates.byCategory) = Len(sourceRows)

\* a row priced by its mean estimate only: counted in the total and in the
\* category summary, left out of the department and collection summaries
C30_Witness ==
    /\ aggregates.done
    /\ aggregates.topN >= Cardinality(CategoriesOf(sourceRows))
    /\ ValueSum(aggregates.byCategory) = aggregates.totalCost
    /\ ValueSum(aggregates.byDepartment) < aggregates.totalCost
    /\ ValueSum(aggregates.byCollection) < aggregates.totalCost
    /\ CountSum(aggregates.byDepartment) = Len(sourceRows)

(***************************************************************************)
(* Claims about the search box.                                            *)
(***************************************************************************)
\* C27: after the clear button is pressed the store's global search text is
\* empty and stays empty until the user types again; no debounced
\* setGlobalSearch of an earlier keystroke runs after the clear and brings an
\* older text back while the box is empty.
C27_ClearedStaysCleared ==
    sinceClear => localValue = <<>> /\ filters.globalSearch = <<>>

\* the box is empty since the clear, the timer of the earlier keystroke has
\* run, and the store searches for the text that was cleared
C27_Witness ==
    /\ sinceClear
    /\ localValue = <<>>
    /\ filters.globalSearch # <<>>
    /\ lastOp.name = "setGlobalSearch"
    /\ ~timeoutId.pending

(***************************************************************************)
(* Claims about pagination.                                                *)
(***************************************************************************)
\* the page p of the request made, every other option kept
PageOf(p) == QueryWorkItems(qRows, [qOptions EXCEPT !.page = p])

\* the sorted positions lo..hi (from 1) of the request's result
SortedSpan(lo, hi) ==
    [k \in 1..(IF hi >= lo THEN hi - lo + 1 ELSE 0) |-> qResult.sortedRows[lo + k - 1]]

RECURSIVE PagesUpTo(_)
\* the rows of the pages 1..p, one page after the other
PagesUpTo(p) == IF p = 0 THEN <<>> ELSE PagesUpTo(p - 1) \o PageOf(p).pageRows

\* C25: for a filtered, sorted result of size total and a limit L >= 1,
\* totalPages = ceil(total / L); page p in 1..totalPages holds the sorted
\* positions (p - 1) * L + 1 .. min(p * L, total), each item with its position
\* as id; the pages are disjoint and together the whole list; total does not
\* depend on p or L; a page beyond totalPages is empty.
C25_PagesPartition ==
    qResult.done =>
        LET L == qResult.limit
            total == qResult.total
            pages == qResult.totalPages
        IN  /\ L >= 1 /\ qResult.page >= 1
            /\ total = Len(qResult.sortedRows)
            /\ pages * L >= total /\ (pages > 0 => (pages - 1) * L < total)
            /\ \A p \in 1..(MaxPage + 1) :
                   LET hi == IF p * L < total THEN p * L ELSE total
                       page == PageOf(p)
                   IN  /\ page.total = total
                       /\ page.totalPages = pages
                       /\ page.pageRows = SortedSpan((p - 1) * L + 1, hi)
                       /\ Len(page.items) = Len(page.pageRows)
                       /\ \A k \in 1..Len(page.items) :
                              page.items[k].id = NumberToString((p - 1) * L + k)
                       /\ p > pages => page.items = <<>>
            /\ \A p, q \in 1..pages :
                   p # q => Range(PageOf(p).pageRows) \cap Range(PageOf(q).pageRows) = {}
            /\ PagesUpTo(pages) = qResult.sortedRows
            /\ \A limit \in 1..(MaxPageRows + 1) :
                   QueryWorkItems(qRows, [qOptions EXCEPT !.limit = limit]).total = total

\* the second of two pages: three rows, a limit of two, the third row alone
\* on the page
C25_Witness ==
    /\ qResult.done
    /\ qResult.total = 3 /\ qResult.limit = 2 /\ qResult.page = 2
    /\ qResult.totalPages = 2
    /\ Len(qResult.items) = 1
    /\ qResult.items[1].id = NumberToString(3)

(***************************************************************************)
(* Claims about the selected region and about clearCache.                  *)
(***************************************************************************)
\* C28: in every reachable state of the region store the selected region is
\* a key the server accepts, so a request for the selected region never
\* fails with "Invalid region".
C28_SelectedRegionValid ==
    /\ isValidRegion(selectedRegion)
    /\ RouteResponse(selectedRegion, TRUE).ok

\* a region of the client's list that the server does not know is selected
\* and its request was refused
C28_Witness ==
    /\ selectedRegion \in RegionCodes
    /\ ~isValidRegion(selectedRegion)
    /\ RouteResponse(selectedRegion, TRUE).body.error = "Invalid region"
    /\ queries[selectedRegion].status = "error"
    /\ queries[selectedRegion].error = FetchError(RouteResponse(selectedRegion, TRUE))

\* the read of call i ends and writes what it read into a cache
WritesCaches(i) ==
    /\ calls[i].pc = "reading"
    /\ calls'[i].pc = "idle"
    /\ \/ dataCache' # dataCache
       \/ queryCache' # queryCache

\* a load is in flight and clearCache has run since it began
C29_Witness ==
    \E i \in 1..MaxCalls : calls[i].pc = "reading" /\ calls[i].cleared

\* C29: after clearCache has returned no cache holds data read before the
\* clear, also when a load was in flight at the clear and ends after it: a
\* read that a clear has overtaken writes nothing into the caches.
C29_NoPreClearData ==
    [][\A i \in 1..MaxCalls : WritesCaches(i) => ~calls[i].cleared]_vars

====
